---------------------------- MODULE Spec2Model ----------------------------
(***************************************************************************)
(* Court scheduler: timezone-aware slot conversion and availability        *)
(* aggregation (AvailabilityMap.tsx, utils/timezone.ts), the participant   *)
(* list of App.tsx and the palette of types/index.ts.                      *)
(*                                                                         *)
(* Time is counted in whole hours.  An absolute instant is the number of   *)
(* hours since 1970-01-01T00:00Z (what Date.getTime() counts in ms); a     *)
(* wall-clock time is the same count read in some zone.  Every slot of the *)
(* program is a whole hour and every zone of the model has a whole-hour    *)
(* offset, so nothing is lost.                                             *)
(*                                                                         *)
(* A weekday key is a string.  An ISO date key "YYYY-MM-DD" is the tuple   *)
(* <<YYYY, MM, DD>> of its three fields; parsing computes the day number   *)
(* from the fields and formatting computes the fields from the day number. *)
(***************************************************************************)
EXTENDS Integers, Sequences, FiniteSets, TLC

VARIABLES
    participants,   \* App state: the insertion-ordered participant list
    userTimezone,   \* App state: the observer's zone (the browser's zone)
    today,          \* the browser's local calendar day of `new Date()` (day number)
    storage,        \* localStorage['rp-court-participants'], as the list it parses to
    mounted,        \* whether App's mount effects have run
    nextId,         \* source of fresh ids (crypto.randomUUID)
    conv,           \* what is in progress: one conversion call with its arguments
                    \* and results, the renders of a grid, or the effects and
                    \* updates React has pending
    form,           \* ParticipantForm: isOpen and its availabilityType state
    persistence     \* localStorage: what the item is, whether access throws,
                    \* and whether an exception left a storage function

vars ==
    <<participants, userTimezone, today, storage, mounted, nextId, conv, form, persistence>>

---------------------------------------------------------------------------
(* Calendar arithmetic of the JavaScript Date object (proleptic Gregorian). *)

\* Day number (days since 1970-01-01) of the civil date y-m-d.
DaysFromCivil(y, m, d) ==
    LET yy  == IF m <= 2 THEN y - 1 ELSE y
        era == yy \div 400
        yoe == yy - era * 400
        mp  == IF m > 2 THEN m - 3 ELSE m + 9
        doy == (153 * mp + 2) \div 5 + d - 1
        doe == yoe * 365 + yoe \div 4 - yoe \div 100 + doy
    IN  era * 146097 + doe - 719468

\* The civil date <<y, m, d>> of a day number: getFullYear(), getMonth() + 1,
\* getDate(), which the code pads and joins into "YYYY-MM-DD".
CivilFromDays(z) ==
    LET zz  == z + 719468
        era == zz \div 146097
        doe == zz - era * 146097
        yoe == (doe - doe \div 1460 + doe \div 36524 - doe \div 146096) \div 365
        doy == doe - (365 * yoe + yoe \div 4 - yoe \div 100)
        mp  == (5 * doy + 2) \div 153
        d   == doy - (153 * mp + 2) \div 5 + 1
        m   == IF mp < 10 THEN mp + 3 ELSE mp - 9
        y   == yoe + era * 400 + (IF m <= 2 THEN 1 ELSE 0)
    IN  <<y, m, d>>

IsLeap(y) == (y % 4 = 0 /\ y % 100 # 0) \/ y % 400 = 0

DaysInMonth(y, m) ==
    IF m = 2 THEN (IF IsLeap(y) THEN 29 ELSE 28)
    ELSE IF m \in {4, 6, 9, 11} THEN 30 ELSE 31

\* Whether the three fields of a date key form a calendar date (the parse of
\* "YYYY-MM-DD" succeeds).
IsValidDateKey(k) ==
    /\ k[2] \in 1..12
    /\ k[3] >= 1
    /\ k[3] <= DaysInMonth(k[1], k[2])

\* Date.getDay(): 0 = Sunday .. 6 = Saturday.  1970-01-01 was a Thursday.
JsDayOfWeek(dayNumber) == (dayNumber + 4) % 7

\* The day number and the hour of day of a wall-clock hour count.
DayOf(w)  == w \div 24
HourOf(w) == w % 24

---------------------------------------------------------------------------
(* The zone database (Intl / date-fns-tz), with the rules in force in 2024. *)

ValidZones ==
    {"UTC", "Etc/GMT+12", "America/Los_Angeles", "America/New_York", "Europe/London",
     "Asia/Tokyo", "Pacific/Auckland"}

\* An identifier the zone database does not know.
UnknownZone == "Mars/Phobos"

isValidTimezone(z) == z \in ValidZones

\* The transitions of 2024, as instants: day number * 24 + hour of day.
USStart == 19792 * 24         \* 2024-03-10 00:00Z; 02:00 local standard time with the offset below
USEnd   == 20030 * 24         \* 2024-11-03 00:00Z; 02:00 local daylight time with the offset below
EUStart == 19813 * 24 + 1     \* 2024-03-31 01:00Z
EUEnd   == 20023 * 24 + 1     \* 2024-10-27 01:00Z
NZEnd   == 19819 * 24 + 14    \* 2024-04-06 14:00Z, 03:00 NZDT on April 7
NZStart == 19994 * 24 + 14    \* 2024-09-28 14:00Z, 02:00 NZST on September 29

\* The UTC offset, in hours, of zone z at the absolute instant t.
ZoneOffset(z, t) ==
    CASE z = "UTC"                 -> 0
      [] z = "Etc/GMT+12"          -> 0 - 12
      [] z = "America/Los_Angeles" -> IF t >= USStart + 10 /\ t < USEnd + 9 THEN 0 - 7 ELSE 0 - 8
      [] z = "America/New_York"    -> IF t >= USStart + 7 /\ t < USEnd + 6 THEN 0 - 4 ELSE 0 - 5
      [] z = "Europe/London"       -> IF t >= EUStart /\ t < EUEnd THEN 1 ELSE 0
      [] z = "Asia/Tokyo"          -> 9
      [] z = "Pacific/Auckland"    -> IF t >= NZEnd /\ t < NZStart THEN 12 ELSE 13

\* The wall-clock time zone z shows at instant t.
WallClock(z, t) == t + ZoneOffset(z, t)


---------------------------------------------------------------------------
(* The JavaScript Date object in the browser's zone, and date-fns-tz.      *)

\* App.tsx sets userTimezone from getUserTimezone(), the zone the browser
\* resolves: the zone of every local Date getter and setter.
browserZone == userTimezone

\* The instant of a Date set from local components w (new Date(y, m, d),
\* setDate, setHours).  ECMAScript reads a skipped or repeated local time with
\* the offset in force before the transition.
JsLocalToUtc(bz, w) ==
    LET oPre  == ZoneOffset(bz, w - 14)
        oPost == ZoneOffset(bz, w + 13)
    IN  IF ZoneOffset(bz, w - oPre) = oPre THEN w - oPre
        ELSE IF ZoneOffset(bz, w - oPost) = oPost THEN w - oPost
        ELSE w - oPre

\* The local components (getFullYear .. getHours) such a Date reads back:
\* w itself unless w is skipped in the browser's zone.
JsLocalDate(bz, w) == WallClock(bz, JsLocalToUtc(bz, w))

\* date-fns-tz: the offset of zone z for the wall-clock time w (guess the
\* offset at w read as UTC, then correct it around a transition).
fixOffset(z, w) ==
    LET o1 == ZoneOffset(z, w)
        o2 == ZoneOffset(z, w - o1)
        o3 == ZoneOffset(z, w - o2)
    IN  IF o1 = o2 THEN o1
        ELSE IF o2 = o3 THEN o2
        ELSE IF o2 > o3 THEN o2 ELSE o3

\* The instant of the Date itself, its components read in the browser's zone
\* and not in zone z.
zonedTimeToUtcOfBrowser(w, z) == JsLocalToUtc(browserZone, w)

\* date-fns-tz zonedTimeToUtc: the instant at which zone z shows wall clock w.
zonedTimeToUtc(w, z) == w - fixOffset(z, w)

\* A utcToZonedTime that applies the offset of the zone twice.
utcToZonedTimeTwice(t, z) == JsLocalDate(browserZone, t + 2 * ZoneOffset(z, t))

\* date-fns-tz utcToZonedTime: a Date whose local components are the wall
\* clock of zone z at instant t (it is built with setFullYear and setHours in
\* the browser's zone).
utcToZonedTime(t, z) == JsLocalDate(browserZone, WallClock(z, t))

---------------------------------------------------------------------------
(* utils/timezone.ts                                                       *)

DAYS_OF_WEEK ==
    <<"Monday", "Tuesday", "Wednesday", "Thursday", "Friday", "Saturday", "Sunday">>

\* A lookup that takes an unknown name for the first day of the week.
getDayIndexDefaulting(dayName) ==
    IF \E i \in 1..7 : DAYS_OF_WEEK[i] = dayName
    THEN (CHOOSE i \in 1..7 : DAYS_OF_WEEK[i] = dayName) - 1
    ELSE 0

\* Array.prototype.indexOf on the seven names: 0..6, or -1.
getDayIndex(dayName) ==
    IF \E i \in 1..7 : DAYS_OF_WEEK[i] = dayName
    THEN (CHOOSE i \in 1..7 : DAYS_OF_WEEK[i] = dayName) - 1
    ELSE 0 - 1

getDayName(dayIndex) == DAYS_OF_WEEK[(dayIndex % 7) + 1]

\* Monday-first index (Monday = 0) to Date.getDay() index (Sunday = 0).
ToJsDayIndex(targetDayIndex) ==
    IF targetDayIndex = 6 THEN 0 ELSE targetDayIndex + 1

\* A getDay() index taken for a Monday-first index as it is.
ToMondayIndexUnshifted(userDayOfWeek) == userDayOfWeek

\* Date.getDay() index to Monday-first index.
ToMondayIndex(userDayOfWeek) ==
    IF userDayOfWeek = 0 THEN 6 ELSE userDayOfWeek - 1

\* A count that takes today itself for a week away.
DaysToAddNextWeek(jsDayIndex) ==
    LET d == jsDayIndex - JsDayOfWeek(today)
    IN  IF d <= 0 THEN d + 7 ELSE d

\* The number of days from today to the next occurrence of a getDay() index.
DaysToAdd(jsDayIndex) ==
    LET d == jsDayIndex - JsDayOfWeek(today)
    IN  IF d < 0 THEN d + 7 ELSE d

\* A Date built without the setDate: today at the hour.
WeeklyTargetDateToday(jsDayIndex, hour) ==
    JsLocalDate(browserZone, today * 24 + hour)

\* The Date the weekly code builds: today's local midnight, setDate(+daysToAdd),
\* setHours(hour) (an hour outside 0..23 rolls into a neighbouring day).
WeeklyTargetDate(jsDayIndex, hour) ==
    JsLocalDate(browserZone, (today + DaysToAdd(jsDayIndex)) * 24 + hour)

\* convertTimeSlot, weekly call (no specificDate).  An unknown zone makes the
\* date-fns-tz calls throw, and the catch returns the arguments.
convertTimeSlot(participantTimezone, userTz, day, hour) ==
    LET targetDayIndex == getDayIndex(day)
    IN  IF targetDayIndex = 0 - 1 THEN [day |-> day, hour |-> hour]
        ELSE IF ~isValidTimezone(participantTimezone) THEN [day |-> day, hour |-> hour]
        ELSE LET targetDate    == WeeklyTargetDate(ToJsDayIndex(targetDayIndex), hour)
                 utcTime       == zonedTimeToUtc(targetDate, participantTimezone)
                 userLocalTime == utcToZonedTime(utcTime, userTz)
                 userDayIndex  == ToMondayIndex(JsDayOfWeek(DayOf(userLocalTime)))
             IN  [day |-> getDayName(userDayIndex), hour |-> HourOf(userLocalTime)]

\* getTimezoneOffset, in minutes: the instant is shown in the zone and the
\* Date obtained is read back as wall clock of the same zone.
getTimezoneOffset(date, timezone) ==
    LET utcDate   == date
        zonedDate == utcToZonedTime(utcDate, timezone)
        utcTime   == zonedTimeToUtc(zonedDate, timezone)
    IN  (utcTime - utcDate) * 60

\* new Date(date.getFullYear(), 0, 1): midnight of January 1, in the browser's
\* zone, of the year the browser shows for the instant.
winterDate(date) ==
    LET year == CivilFromDays(DayOf(WallClock(browserZone, date)))[1]
    IN  JsLocalToUtc(browserZone, DaysFromCivil(year, 1, 1) * 24)

\* isDaylightSavingTime; an unknown zone ends in the catch.
isDaylightSavingTime(date, timezone) ==
    IF ~isValidTimezone(timezone) THEN FALSE
    ELSE getTimezoneOffset(date, timezone) # getTimezoneOffset(winterDate(date), timezone)

---------------------------------------------------------------------------
(* components/AvailabilityMap.tsx                                          *)

\* The absent specificDate argument.
NoDate == <<>>

\* The display day of a date key that is no calendar date (days[NaN]).
Undefined == "undefined"

\* The hours the string `${key}T${hh}:00:00` parses with: 00..23, and 24 as
\* the midnight that ends the day.
ParsableHour(h) == h \in 0..24

\* A conversion of a dated entry that converts the hour and leaves the date
\* the participant named.
convertTimeSlotSpecificKeepDate(participantTimezone, userTz, participantDateKey, participantHour) ==
    IF \/ ~IsValidDateKey(participantDateKey)
       \/ ~ParsableHour(participantHour)
       \/ ~isValidTimezone(participantTimezone)
    THEN [date |-> participantDateKey, hour |-> participantHour, dayName |-> "Monday"]
    ELSE LET w == DaysFromCivil(participantDateKey[1], participantDateKey[2],
                                participantDateKey[3]) * 24 + participantHour
             userDateTime == utcToZonedTime(zonedTimeToUtc(w, participantTimezone), userTz)
         IN  [date    |-> participantDateKey,
              hour    |-> HourOf(userDateTime),
              dayName |-> DAYS_OF_WEEK[ToMondayIndex(JsDayOfWeek(DayOf(w))) + 1]]

\* convertTimeSlotSpecific.  A key or hour that does not parse, or an unknown
\* zone, ends in the catch: the arguments come back with dayName 'Monday'.
convertTimeSlotSpecific(participantTimezone, userTz, participantDateKey, participantHour) ==
    IF \/ ~IsValidDateKey(participantDateKey)
       \/ ~ParsableHour(participantHour)
       \/ ~isValidTimezone(participantTimezone)
    THEN [date |-> participantDateKey, hour |-> participantHour, dayName |-> "Monday"]
    ELSE LET w == DaysFromCivil(participantDateKey[1], participantDateKey[2],
                                participantDateKey[3]) * 24 + participantHour
             utcTime      == zonedTimeToUtc(w, participantTimezone)
             userDateTime == utcToZonedTime(utcTime, userTz)
             userDayIndex == ToMondayIndex(JsDayOfWeek(DayOf(userDateTime)))
         IN  [date    |-> CivilFromDays(DayOf(userDateTime)),
              hour    |-> HourOf(userDateTime),
              dayName |-> DAYS_OF_WEEK[userDayIndex + 1]]

\* The weekly conversion inlined in getAvailabilityData, for one entry.
\* placed is FALSE when the entry is left (`return` on an unknown day name, or
\* the catch, which only logs).
weeklyInline(participantTimezone, participantDay, participantHour) ==
    LET dayIndex == getDayIndex(participantDay)
    IN  IF dayIndex = 0 - 1 \/ ~isValidTimezone(participantTimezone)
        THEN [placed |-> FALSE, date |-> NoDate, day |-> participantDay,
              hour |-> participantHour]
        ELSE LET targetDate   == WeeklyTargetDate(ToJsDayIndex(dayIndex), participantHour)
                 utcTime      == zonedTimeToUtc(targetDate, participantTimezone)
                 userDateTime == utcToZonedTime(utcTime, userTimezone)
                 userDayIndex == ToMondayIndex(JsDayOfWeek(DayOf(userDateTime)))
             IN  [placed |-> TRUE, date |-> NoDate,
                  day |-> DAYS_OF_WEEK[userDayIndex + 1], hour |-> HourOf(userDateTime)]


\* The concatenation of a sequence of sequences (nested forEach, in order).
RECURSIVE Flatten(_)
Flatten(ss) ==
    IF ss = <<>> THEN <<>> ELSE Head(ss) \o Flatten(Tail(ss))

\* Object.entries(availability) with each hour of each key: the raw entries
\* [key, hour] of one participant, in iteration order.  An availability is the
\* sequence of its [key, hours] properties.
RawEntries(availability) ==
    Flatten([k \in 1..Len(availability) |->
                [h \in 1..Len(availability[k].hours) |->
                    [key |-> availability[k].key, hour |-> availability[k].hours[h]]]])

\* What the conversion yields for every raw entry of the participant at
\* position i (the conversion does not depend on the cell asked for): a record
\* per entry, with the participant's position and type.
EntrySlots(i, p) ==
    LET raw == RawEntries(p.availability)
    IN  [e \in 1..Len(raw) |->
            IF p.availabilityType = "weekly"
            THEN LET w == weeklyInline(p.timezone, raw[e].key, raw[e].hour)
                 IN  [i |-> i, type |-> p.availabilityType, entry |-> raw[e],
                      placed |-> w.placed, date |-> NoDate, day |-> w.day,
                      hour |-> w.hour]
            ELSE LET c == convertTimeSlotSpecific(p.timezone, userTimezone,
                                                  raw[e].key, raw[e].hour)
                 IN  [i |-> i, type |-> p.availabilityType, entry |-> raw[e],
                      placed |-> TRUE, date |-> c.date, day |-> c.dayName,
                      hour |-> c.hour]]

\* The conversions of a whole participant list, in the order of the nested
\* forEach loops (participants, then keys, then hours).
AllSlots(ps) == Flatten([i \in 1..Len(ps) |-> EntrySlots(i, ps[i])])

\* The test of getAvailabilityData for one converted entry against the cell
\* (day, hour, specificDate).
SlotMatches(slot, day, hour, specificDate) ==
    IF slot.type = "weekly" /\ specificDate = NoDate
    THEN slot.placed /\ slot.day = day /\ slot.hour = hour
    ELSE IF slot.type = "specific" /\ specificDate # NoDate
    THEN slot.date = specificDate /\ slot.hour = hour /\ slot.day = day
    ELSE FALSE

\* An aggregation without the try around each conversion: the first entry
\* whose conversion throws ends the loops, and the members gathered so far
\* are what is left.
getAvailabilityDataUncaught(slots, day, hour, specificDate) ==
    LET threw == {k \in 1..Len(slots) :
                     /\ slots[k].type = "weekly"
                     /\ ~slots[k].placed
                     /\ getDayIndex(slots[k].entry.key) # 0 - 1}
        reached == IF threw = {} THEN slots
                   ELSE SubSeq(slots, 1, (CHOOSE k \in threw : \A j \in threw : k <= j) - 1)
        hits == SelectSeq(reached, LAMBDA s : SlotMatches(s, day, hour, specificDate))
    IN  [k \in 1..Len(hits) |-> hits[k].i]

\* An aggregation whose availableParticipants array outlives the call: the
\* members the render before found for the cell are still in it.
getAvailabilityDataAccumulating(slots, day, hour, specificDate) ==
    LET hits == SelectSeq(slots, LAMBDA s : SlotMatches(s, day, hour, specificDate))
        cell == [day |-> day, hour |-> hour, date |-> specificDate]
        kept == IF conv.pc = "rendered" /\ cell \in DOMAIN conv.first.cells
                THEN conv.first.cells[cell].members
                ELSE <<>>
    IN  kept \o [k \in 1..Len(hits) |-> hits[k].i]

\* An aggregation that puts every member found at the front of
\* availableParticipants (unshift for push).
getAvailabilityDataUnshift(slots, day, hour, specificDate) ==
    LET hits == SelectSeq(slots, LAMBDA s : SlotMatches(s, day, hour, specificDate))
    IN  [k \in 1..Len(hits) |-> hits[Len(hits) + 1 - k].i]

\* getAvailabilityData: availableParticipants for the cell, as positions in
\* the participant list; one push per matching entry.  slots = AllSlots(ps).
getAvailabilityData(slots, day, hour, specificDate) ==
    LET hits == SelectSeq(slots, LAMBDA s : SlotMatches(s, day, hour, specificDate))
    IN  [k \in 1..Len(hits) |-> hits[k].i]

\* What convertTimeSlot returns for every raw entry of every participant.
AllConverted(ps) ==
    Flatten([i \in 1..Len(ps) |->
        LET raw == RawEntries(ps[i].availability)
        IN  [e \in 1..Len(raw) |->
                LET c == convertTimeSlot(ps[i].timezone, userTimezone,
                                         raw[e].key, raw[e].hour)
                IN  [i |-> i, entry |-> raw[e], day |-> c.day, hour |-> c.hour]]])

\* The aggregation of the earlier AvailabilityMap, which calls convertTimeSlot
\* for every entry and has the weekly grid only.  converted = AllConverted(ps).
getAvailabilityDataConvert(converted, day, hour) ==
    LET hits == SelectSeq(converted, LAMBDA c : c.day = day /\ c.hour = hour)
    IN  [k \in 1..Len(hits) |-> hits[k].i]

\* Lexicographic order of date keys: the order of the strings "YYYY-MM-DD".
DateKeyLess(a, b) ==
    \/ a[1] < b[1]
    \/ a[1] = b[1] /\ a[2] < b[2]
    \/ a[1] = b[1] /\ a[2] = b[2] /\ a[3] < b[3]

\* Array.from(set).sort()
RECURSIVE SortDates(_)
SortDates(S) ==
    IF S = {} THEN <<>>
    ELSE LET least == CHOOSE a \in S : \A b \in S \ {a} : DateKeyLess(a, b)
         IN  <<least>> \o SortDates(S \ {least})

\* The dates of a list of slots in the order in which a Set first receives
\* them.
RECURSIVE FirstOccurrences(_, _)
FirstOccurrences(slots, acc) ==
    IF slots = <<>> THEN acc
    ELSE IF \E k \in 1..Len(acc) : acc[k] = Head(slots).date
    THEN FirstOccurrences(Tail(slots), acc)
    ELSE FirstOccurrences(Tail(slots), Append(acc, Head(slots).date))

\* A getAllPossibleDates that returns Array.from(allDates) as it is.
getAllPossibleDatesUnsorted(slots) ==
    FirstOccurrences(SelectSeq(slots, LAMBDA s : s.type = "specific"), <<>>)

\* getAllPossibleDates: the converted date of every entry of every
\* specific-date participant.
getAllPossibleDates(slots) ==
    SortDates({slots[k].date : k \in {j \in 1..Len(slots) : slots[j].type = "specific"}})

availabilityType(ps) ==
    IF Len(ps) > 0 THEN ps[1].availabilityType ELSE "weekly"

specificDates(ps, slots) ==
    IF availabilityType(ps) = "specific" THEN getAllPossibleDates(slots) ELSE <<>>

\* The weekday name shown under a date column: new Date(key + 'T12:00:00')
\* .getDay(), mapped Monday-first; undefined for a key that is no date.
displayDayName(dateKey) ==
    IF IsValidDateKey(dateKey)
    THEN DAYS_OF_WEEK[ToMondayIndex(JsDayOfWeek(
             DaysFromCivil(dateKey[1], dateKey[2], dateKey[3]))) + 1]
    ELSE Undefined

hours == 0..23

\* types/index.ts: the palette.
PARTICIPANT_COLORS ==
    <<"#3B82F6", "#EF4444", "#10B981", "#FACC15", "#6B7280", "#F472B6",
      "#0EA5E9", "#5EEAD4", "#FB923C", "#8B5CF6", "#6366F1", "#D97706">>

\* Array.prototype.findIndex(p => p.id === participantId): 0-based, or -1.
findIndex(ps, participantId) ==
    IF \E i \in 1..Len(ps) : ps[i].id = participantId
    THEN (CHOOSE i \in 1..Len(ps) :
             /\ ps[i].id = participantId
             /\ \A j \in 1..(i - 1) : ps[j].id # participantId) - 1
    ELSE 0 - 1

\* A palette lookup that stops at the last color instead of wrapping round.
getParticipantColorClamped(ps, participantId) ==
    LET index == findIndex(ps, participantId)
    IN  IF index >= Len(PARTICIPANT_COLORS)
        THEN PARTICIPANT_COLORS[Len(PARTICIPANT_COLORS)]
        ELSE PARTICIPANT_COLORS[index + 1]

\* getParticipantColor: PARTICIPANT_COLORS[index % PARTICIPANT_COLORS.length]
\* (undefined when the id is not in the list).
getParticipantColor(ps, participantId) ==
    LET index == findIndex(ps, participantId)
    IN  IF index = 0 - 1 THEN Undefined
        ELSE PARTICIPANT_COLORS[(index % Len(PARTICIPANT_COLORS)) + 1]

\* The cells the component renders: [day, hour, date].  None while the list is
\* empty (the placeholder is returned instead of the grid).
GridCells(ps, slots) ==
    IF Len(ps) = 0 THEN {}
    ELSE IF availabilityType(ps) = "weekly"
    THEN {[day |-> DAYS_OF_WEEK[d], hour |-> h, date |-> NoDate] : d \in 1..7, h \in hours}
    ELSE LET cols == specificDates(ps, slots)
         IN  {[day |-> displayDayName(cols[c]), hour |-> h, date |-> cols[c]] :
                 c \in 1..Len(cols), h \in hours}

\* A renderTimeSlot that shows 'all' from the number of participants upwards.
renderTimeSlotAtLeast(ps, slots, day, hour, specificDate) ==
    LET availableParticipants == getAvailabilityData(slots, day, hour, specificDate)
        count == Len(availableParticipants)
    IN  IF count = 0
        THEN [members |-> availableParticipants, count |-> 0, text |-> "", isAll |-> FALSE]
        ELSE LET isAllParticipants == (count >= Len(ps))
             IN  [members |-> availableParticipants, count |-> count,
                  text |-> IF isAllParticipants THEN "all" ELSE "count",
                  isAll |-> isAllParticipants]

\* A renderTimeSlot without the early return for an empty cell.
renderTimeSlotNoEmptyCase(ps, slots, day, hour, specificDate) ==
    LET availableParticipants == getAvailabilityData(slots, day, hour, specificDate)
        count == Len(availableParticipants)
        isAllParticipants == (count = Len(ps))
    IN  [members |-> availableParticipants, count |-> count,
         text |-> IF isAllParticipants THEN "all" ELSE "count",
         isAll |-> isAllParticipants]

\* renderTimeSlot: what the cell shows.  An empty cell shows no text; otherwise
\* 'all' when the count equals the number of participants, else the count.
renderTimeSlot(ps, slots, day, hour, specificDate) ==
    LET availableParticipants == getAvailabilityData(slots, day, hour, specificDate)
        count == Len(availableParticipants)
    IN  IF count = 0
        THEN [members |-> availableParticipants, count |-> 0, text |-> "", isAll |-> FALSE]
        ELSE LET isAllParticipants == (count = Len(ps))
             IN  [members |-> availableParticipants, count |-> count,
                  text |-> IF isAllParticipants THEN "all" ELSE "count",
                  isAll |-> isAllParticipants]


---------------------------------------------------------------------------
(* App.tsx and utils/storage.ts: the participant list.                     *)

\* Bounds of the aggregation model.
MaxParticipants == 2
MaxEntries == 2

\* The number of raw entries of a participant list.
RECURSIVE TotalEntries(_)
TotalEntries(ps) ==
    IF ps = <<>> THEN 0
    ELSE Len(RawEntries(Head(ps).availability)) + TotalEntries(Tail(ps))

\* The reference day: the Friday before the Sunday on which America/New_York
\* falls back (Europe/London has no transition that week).
ReferenceDays == {DaysFromCivil(2024, 11, 1)}

ObserverZones == {"America/New_York", "Europe/London"}

\* Zones of stored participants; the form offers the known ones.
StoredZones == {"Asia/Tokyo", UnknownZone}
FormZones == StoredZones \cap ValidZones

\* Entries of stored participants: two hours that America/New_York shows as
\* the same hour of November 3, an hour outside 0..23, and a key that is no
\* weekday name or no calendar date.
StoredEntries(type) ==
    IF type = "weekly"
    THEN {[key |-> "Sunday", hour |-> 14], [key |-> "Sunday", hour |-> 15],
          [key |-> "Sunday", hour |-> 25], [key |-> "Funday", hour |-> 14]}
    ELSE {[key |-> <<2024, 11, 3>>, hour |-> 14], [key |-> <<2024, 11, 3>>, hour |-> 15],
          [key |-> <<2024, 11, 3>>, hour |-> 25], [key |-> <<2024, 13, 1>>, hour |-> 14]}

\* A flat list of entries as the availability object it is read from: one
\* property per key, in order of first appearance, its hours in order.
RECURSIVE GroupEntries(_, _)
GroupEntries(flat, acc) ==
    IF flat = <<>> THEN acc
    ELSE LET e == Head(flat)
         IN  IF \E k \in 1..Len(acc) : acc[k].key = e.key
             THEN LET k == CHOOSE j \in 1..Len(acc) : acc[j].key = e.key
                  IN  GroupEntries(Tail(flat),
                          [acc EXCEPT ![k].hours = Append(@, e.hour)])
             ELSE GroupEntries(Tail(flat),
                          Append(acc, [key |-> e.key, hours |-> <<e.hour>>]))

\* The availabilities of a type with at most n raw entries.
Availabilities(type, n) ==
    {GroupEntries(f, <<>>) : f \in UNION {[1..k -> StoredEntries(type)] : k \in 0..n}}

WeeklyAvailabilities == Availabilities("weekly", MaxEntries)
SpecificAvailabilities == Availabilities("specific", MaxEntries)
StoredAvailabilities(type) ==
    IF type = "weekly" THEN WeeklyAvailabilities ELSE SpecificAvailabilities

\* What the form can submit: weekday or date keys it offers, hours 0..23,
\* each hour list ascending without repeats.
IsFormAvailability(type, av) ==
    \A k \in 1..Len(av) :
        /\ IF type = "weekly" THEN getDayIndex(av[k].key) # 0 - 1
                              ELSE IsValidDateKey(av[k].key)
        /\ \A h \in 1..Len(av[k].hours) :
              /\ av[k].hours[h] \in hours
              /\ h > 1 => av[k].hours[h - 1] < av[k].hours[h]

WeeklyFormAvailabilities ==
    {a \in WeeklyAvailabilities : IsFormAvailability("weekly", a)}
SpecificFormAvailabilities ==
    {a \in SpecificAvailabilities : IsFormAvailability("specific", a)}
FormAvailabilities(type) ==
    IF type = "weekly" THEN WeeklyFormAvailabilities ELSE SpecificFormAvailabilities

NoConv == [pc |-> "idle"]

\* localStorage of a browser that never held the item and whose storage
\* works; and after the list was saved.
NoItem == [item |-> "none", readFails |-> FALSE, writeFails |-> FALSE, escaped |-> FALSE]
SavedItem == [item |-> "list", readFails |-> FALSE, writeFails |-> FALSE, escaped |-> FALSE]

\* ParticipantForm before it was ever opened: useState('weekly').
\* Its availability is the sequence of its [key, hours] properties (as in
\* RawEntries); selectedDates is the Set of date keys picked in the calendar,
\* in insertion order.
ClosedForm ==
    [isOpen |-> FALSE, availabilityType |-> "weekly",
     availability |-> <<>>, selectedDates |-> <<>>]

\* lockedAvailabilityType: the type of the first existing participant, null
\* for an empty list.
isFirstParticipant(existingParticipants) == Len(existingParticipants) = 0
lockedAvailabilityType(existingParticipants) ==
    IF isFirstParticipant(existingParticipants) THEN "null"
    ELSE existingParticipants[1].availabilityType

\* The effect on [lockedAvailabilityType], without its body.
lockedTypeEffectMissing(formType, before, after) == formType

\* The effect on [lockedAvailabilityType]: it runs after a render in which
\* the locked type differs from that of the render before, and sets the
\* form's type when the locked type is not null.
lockedTypeEffect(formType, before, after) ==
    IF /\ lockedAvailabilityType(after) # lockedAvailabilityType(before)
       /\ lockedAvailabilityType(after) # "null"
    THEN lockedAvailabilityType(after)
    ELSE formType

\* The form after the render that follows a change of the list.
Rerendered(f, before, after) ==
    [f EXCEPT !.availabilityType = lockedTypeEffect(@, before, after)]

Init ==
    /\ participants = <<>>
    /\ userTimezone = "UTC"
    /\ today \in ReferenceDays
    /\ storage = <<>>
    /\ mounted = FALSE
    /\ nextId = 1
    /\ conv = NoConv
    /\ form = ClosedForm
    /\ persistence = NoItem

\* Before the page is opened: a participant another session saved.  Stored
\* content is read back as parsed, whatever zone, keys and hours it holds.
StoredParticipant(tz, type, av) ==
    /\ ~mounted
    /\ storage # <<>> => type = storage[1].availabilityType
    /\ storage' = Append(storage, [id |-> nextId, timezone |-> tz,
                                   availabilityType |-> type, availability |-> av])
    /\ nextId' = nextId + 1
    /\ persistence' = [persistence EXCEPT !.item = "list"]
    /\ UNCHANGED <<participants, userTimezone, today, mounted, conv, form>>

\* localStorage.getItem and JSON.parse: the list read, or an exception
\* (storage that cannot be accessed, an item that does not parse).  No item
\* reads as null, for which the list is [].
loadParticipantsUncaught ==
    IF persistence.readFails \/ persistence.item = "corrupt"
    THEN [threw |-> TRUE, value |-> <<>>]
    ELSE [threw |-> FALSE,
          value |-> IF persistence.item = "none" THEN <<>> ELSE storage]

\* loadParticipants: the catch logs and returns [].
loadParticipants ==
    IF persistence.readFails \/ persistence.item = "corrupt"
    THEN [threw |-> FALSE, value |-> <<>>]
    ELSE [threw |-> FALSE,
          value |-> IF persistence.item = "none" THEN <<>> ELSE storage]

\* localStorage.setItem without the try: an exception when the write fails.
saveParticipantsUncaught(ps) ==
    [threw |-> persistence.writeFails, wrote |-> ~persistence.writeFails]

\* A save that writes nothing.
saveParticipantsDropped(ps) ==
    [threw |-> FALSE, wrote |-> FALSE]

\* saveParticipants: the item is written, or the catch logs.
saveParticipants(ps) ==
    [threw |-> FALSE, wrote |-> ~persistence.writeFails]

\* clearParticipants: the item is removed, or the catch logs.
clearParticipants ==
    [threw |-> FALSE, wrote |-> ~persistence.writeFails]

\* The save effect of the render that follows a change of the list to ps,
\* threw telling whether an exception left a storage function before it.
SaveEffect(ps, threw) ==
    LET saved == saveParticipants(ps)
    IN  /\ storage' = IF saved.wrote THEN ps ELSE storage
        /\ persistence' = [persistence EXCEPT
                              !.item = IF saved.wrote THEN "list" ELSE @,
                              !.escaped = @ \/ threw \/ saved.threw]

\* The mount effects: the browser's zone and the stored list are put in the
\* state; the save effect of the next render writes the list back.
Mount(zone) ==
    /\ ~mounted
    /\ userTimezone' = zone
    /\ participants' = loadParticipants.value
    /\ SaveEffect(participants', loadParticipants.threw)
    /\ mounted' = TRUE
    /\ form' = Rerendered(form, participants, participants')
    /\ UNCHANGED <<today, nextId, conv>>

\* A submission that puts the new participant in front of the list.
onSubmitInFront(f, tz, type, av) ==
    /\ mounted
    /\ participants' = <<[id |-> nextId, timezone |-> tz,
                          availabilityType |-> type, availability |-> av]>>
                         \o participants
    /\ nextId' = nextId + 1
    /\ SaveEffect(participants', FALSE)
    /\ form' = Rerendered(f, participants, participants')
    /\ UNCHANGED <<userTimezone, today, mounted, conv>>

\* The form's onSubmit property, which is handleAddParticipant, with the
\* effects of the render that follows: the list is saved and the form, left
\* in state f by its caller, takes the locked type.
onSubmit(f, tz, type, av) ==
    /\ mounted
    /\ participants' = Append(participants, [id |-> nextId, timezone |-> tz,
                                   availabilityType |-> type, availability |-> av])
    /\ nextId' = nextId + 1
    /\ SaveEffect(participants', FALSE)
    /\ form' = Rerendered(f, participants, participants')
    /\ UNCHANGED <<userTimezone, today, mounted, conv>>

handleAddParticipant(tz, type, av) == onSubmit(form, tz, type, av)

\* The type radios are disabled unless the list is empty, so a submission
\* carries the form's type, which the user chose only for an empty list.
CanSubmitType(type) ==
    ~isFirstParticipant(participants) => type = form.availabilityType

handleRemoveParticipant(id) ==
    /\ mounted
    /\ \E i \in 1..Len(participants) : participants[i].id = id
    /\ participants' = SelectSeq(participants, LAMBDA p : p.id # id)
    /\ SaveEffect(participants', FALSE)
    /\ form' = Rerendered(form, participants, participants')
    /\ UNCHANGED <<userTimezone, today, mounted, nextId, conv>>

handleClearAll ==
    /\ mounted
    /\ participants' = <<>>
    /\ SaveEffect(participants', clearParticipants.threw)
    /\ form' = Rerendered(form, participants, participants')
    /\ UNCHANGED <<userTimezone, today, mounted, nextId, conv>>

\* A list with room for one more participant with the entries of av.
HasRoom(ps, av) ==
    /\ Len(ps) < MaxParticipants
    /\ nextId <= MaxParticipants
    /\ TotalEntries(ps) + Len(RawEntries(av)) <= MaxEntries

Next ==
    \/ \E tz \in StoredZones, type \in {"weekly", "specific"} :
         \E av \in StoredAvailabilities(type) :
            HasRoom(storage, av) /\ StoredParticipant(tz, type, av)
    \/ \E zone \in ObserverZones : Mount(zone)
    \/ \E tz \in FormZones, type \in {"weekly", "specific"} :
         \E av \in FormAvailabilities(type) :
            /\ HasRoom(participants, av)
            /\ CanSubmitType(type)
            /\ handleAddParticipant(tz, type, av)
    \/ \E id \in 1..MaxParticipants : handleRemoveParticipant(id)
    \/ handleClearAll

Spec == Init /\ [][Next]_vars


---------------------------------------------------------------------------
(* Properties of the aggregation.                                          *)

\* How many times position i occurs in a membership list.
Occurrences(members, i) == Cardinality({k \in 1..Len(members) : members[k] = i})

\* The weekly grid, whether or not it is rendered.
WeeklyCells ==
    {[day |-> DAYS_OF_WEEK[d], hour |-> h, date |-> NoDate] : d \in 1..7, h \in hours}

\* C1: in every cell of the grid each participant occurs at most once in the
\* membership list, in the aggregation with the inlined conversion and in the
\* one that calls convertTimeSlot.
C1_NoDuplicateMembership ==
    LET slots == AllSlots(participants)
        converted == AllConverted(participants)
    IN  /\ \A c \in GridCells(participants, slots) :
              LET members == getAvailabilityData(slots, c.day, c.hour, c.date)
              IN  \A i \in 1..Len(participants) : Occurrences(members, i) <= 1
        /\ availabilityType(participants) = "weekly" =>
              \A c \in WeeklyCells :
                  LET members == getAvailabilityDataConvert(converted, c.day, c.hour)
                  IN  \A i \in 1..Len(participants) : Occurrences(members, i) <= 1

\* The seven weekday names, as a set.
CanonicalDays == {DAYS_OF_WEEK[d] : d \in 1..7}

\* An entry that passes validation: a weekday name or a calendar date, and an
\* hour of 0..23.
ValidEntry(type, entry) ==
    /\ IF type = "weekly" THEN entry.key \in CanonicalDays ELSE IsValidDateKey(entry.key)
    /\ entry.hour \in hours

\* The cells of the rendered grid whose membership holds the participant of
\* the converted entry s because of s.
CellsOf(s, cells) == {c \in cells : SlotMatches(s, c.day, c.hour, c.date)}

\* C2: every entry that passes validation puts its participant in exactly one
\* cell of the rendered grid (in specific-date mode its converted date is then
\* one of the date columns).
C2_Coverage ==
    LET slots == AllSlots(participants)
        cells == GridCells(participants, slots)
    IN  \A k \in 1..Len(slots) :
            ValidEntry(slots[k].type, slots[k].entry)
                => Cardinality(CellsOf(slots[k], cells)) = 1

\* renderTimeSlot of the earlier AvailabilityMap (weekly grid, convertTimeSlot).
renderTimeSlotConvert(ps, converted, day, hour) ==
    LET availableParticipants == getAvailabilityDataConvert(converted, day, hour)
        count == Len(availableParticipants)
    IN  IF count = 0
        THEN [members |-> availableParticipants, count |-> 0, text |-> "", isAll |-> FALSE]
        ELSE LET isAllParticipants == (count = Len(ps))
             IN  [members |-> availableParticipants, count |-> count,
                  text |-> IF isAllParticipants THEN "all" ELSE "count",
                  isAll |-> isAllParticipants]

\* C3: a cell shows 'all' exactly when its count equals the number of
\* participants and there is at least one participant; with no participant no
\* cell shows it.
C3_FullCoverageFlag ==
    LET slots == AllSlots(participants)
        converted == AllConverted(participants)
        total == Len(participants)
        cells == IF total = 0 THEN WeeklyCells ELSE GridCells(participants, slots)
    IN  /\ \A c \in cells :
              LET r == renderTimeSlot(participants, slots, c.day, c.hour, c.date)
              IN  r.isAll <=> (total > 0 /\ Len(r.members) = total)
        /\ availabilityType(participants) = "weekly" =>
              \A c \in WeeklyCells :
                  LET r == renderTimeSlotConvert(participants, converted, c.day, c.hour)
                  IN  r.isAll <=> (total > 0 /\ Len(r.members) = total)

\* C3 happens: two participants, and a cell that holds both and shows 'all'.
C3_Witness ==
    LET slots == AllSlots(participants)
    IN  /\ mounted
        /\ Len(participants) = 2
        /\ \E c \in GridCells(participants, slots) :
              LET r == renderTimeSlot(participants, slots, c.day, c.hour, c.date)
              IN  r.isAll /\ Occurrences(r.members, 1) = 1 /\ Occurrences(r.members, 2) = 1

\* C6: an entry whose zone cannot be resolved is kept with its unconverted
\* key and hour in every conversion path: convertTimeSlot returns them,
\* convertTimeSlotSpecific returns them, and the inlined weekly branch places
\* the entry at them.
C6_ZoneFailureDegrades ==
    LET slots == AllSlots(participants)
        converted == AllConverted(participants)
    IN  \A k \in 1..Len(slots) :
            LET s == slots[k]
            IN  (~isValidTimezone(participants[s.i].timezone) /\ ValidEntry(s.type, s.entry))
                => IF s.type = "weekly"
                   THEN /\ converted[k].day = s.entry.key
                        /\ converted[k].hour = s.entry.hour
                        /\ s.placed /\ s.day = s.entry.key /\ s.hour = s.entry.hour
                   ELSE s.date = s.entry.key /\ s.hour = s.entry.hour

\* C7: an entry whose hour is outside 0..23 is in no cell of the grid and adds
\* no column to the date axis.
C7_HourOutOfRangeSkipped ==
    LET slots == AllSlots(participants)
        cells == GridCells(participants, slots)
        inRange == SelectSeq(slots, LAMBDA s : s.entry.hour \in hours)
    IN  /\ \A k \in 1..Len(slots) :
              slots[k].entry.hour \notin hours => CellsOf(slots[k], cells) = {}
        /\ specificDates(participants, slots) = specificDates(participants, inRange)

\* C8: a weekly entry whose key is none of the seven weekday names puts its
\* participant in no cell, neither in the aggregation with the inlined
\* conversion nor in the one that calls convertTimeSlot.
C8_InvalidWeekdaySkipped ==
    LET slots == AllSlots(participants)
        converted == AllConverted(participants)
    IN  \A k \in 1..Len(slots) :
            (slots[k].type = "weekly" /\ slots[k].entry.key \notin CanonicalDays)
                => /\ CellsOf(slots[k], WeeklyCells) = {}
                   /\ \A c \in WeeklyCells :
                         ~(converted[k].day = c.day /\ converted[k].hour = c.hour)

\* C8 happens: the grid is shown for a weekly participant of a known zone who
\* has an entry under a key that is no weekday name.
C8_Witness ==
    /\ mounted
    /\ \E i \in 1..Len(participants) :
          /\ participants[i].availabilityType = "weekly"
          /\ isValidTimezone(participants[i].timezone)
          /\ \E k \in 1..Len(participants[i].availability) :
                /\ participants[i].availability[k].key \notin CanonicalDays
                /\ participants[i].availability[k].hours[1] \in hours

\* The entries of a participant that are malformed: unknown zone, invalid key
\* or hour outside 0..23.
Malformed(p) ==
    \/ ~isValidTimezone(p.timezone)
    \/ \E k \in 1..Len(p.availability) :
          \/ IF p.availabilityType = "weekly"
             THEN p.availability[k].key \notin CanonicalDays
             ELSE ~IsValidDateKey(p.availability[k].key)
          \/ \E h \in 1..Len(p.availability[k].hours) : p.availability[k].hours[h] \notin hours

\* C9: in every cell of the grid, how often participant P is a member is what
\* it is in the aggregation of P alone: whatever the other participants hold,
\* malformed or not, P's memberships are those of P's own zone and
\* availability under the observer zone.
C9_FailureIsolation ==
    LET slots == AllSlots(participants)
        cells == GridCells(participants, slots)
    IN  \A p \in 1..Len(participants) :
            LET alone == AllSlots(<<participants[p]>>)
            IN  \A c \in cells :
                    Occurrences(getAvailabilityData(slots, c.day, c.hour, c.date), p)
                        = Occurrences(getAvailabilityData(alone, c.day, c.hour, c.date), 1)

\* C9 happens: a malformed participant precedes a well-formed one who is a
\* member of a cell of the grid.
C9_Witness ==
    LET slots == AllSlots(participants)
    IN  /\ mounted
        /\ Len(participants) = 2
        /\ Malformed(participants[1])
        /\ ~Malformed(participants[2])
        /\ \E c \in GridCells(participants, slots) :
              Occurrences(getAvailabilityData(slots, c.day, c.hour, c.date), 2) = 1

\* C20: the weekday name convertTimeSlotSpecific returns with a slot is the
\* weekday of the date it returns, for every entry of every participant with
\* dates, the entries whose conversion fails included.
C20_DayNameOfReturnedDate ==
    LET slots == AllSlots(participants)
    IN  \A k \in 1..Len(slots) :
            (slots[k].type = "specific" /\ IsValidDateKey(slots[k].date)) =>
                slots[k].day = displayDayName(slots[k].date)

---------------------------------------------------------------------------
(* One conversion and the conversion back, in one browser.                 *)

\* The local days on which the page is open: a quiet winter day, the Friday
\* before America/New_York springs forward and the Friday before it falls back.
ConvReferenceDays ==
    {DaysFromCivil(2024, 1, 10), DaysFromCivil(2024, 3, 8), DaysFromCivil(2024, 11, 1)}

\* Date keys of specific-date slots: a winter day, the two transition Sundays
\* of America/New_York and a summer day.
ConvDateKeys == {<<2024, 1, 10>>, <<2024, 3, 10>>, <<2024, 7, 4>>, <<2024, 11, 3>>}

InitConv ==
    /\ participants = <<>>
    /\ userTimezone \in ValidZones
    /\ today \in ConvReferenceDays
    /\ storage = <<>>
    /\ mounted = TRUE
    /\ nextId = 1
    /\ conv = NoConv
    /\ form = ClosedForm
    /\ persistence = SavedItem

\* convertTimeSlot(from, userTimezone, day, hour), with the instant it pivots on.
ConvertWeekly(from, day, hour) ==
    /\ conv.pc = "idle"
    /\ LET r == convertTimeSlot(from, userTimezone, day, hour)
           utcTime == zonedTimeToUtc(
                          WeeklyTargetDate(ToJsDayIndex(getDayIndex(day)), hour), from)
       IN  conv' = [pc |-> "converted", mode |-> "weekly", from |-> from,
                    key |-> day, hour |-> hour, utc |-> utcTime,
                    outKey |-> r.day, outHour |-> r.hour]
    /\ UNCHANGED <<participants, userTimezone, today, storage, mounted, nextId, form, persistence>>

\* convertTimeSlotSpecific(from, userTimezone, key, hour), with its pivot.
ConvertSpecific(from, key, hour) ==
    /\ conv.pc = "idle"
    /\ LET r == convertTimeSlotSpecific(from, userTimezone, key, hour)
           utcTime == zonedTimeToUtc(
                          DaysFromCivil(key[1], key[2], key[3]) * 24 + hour, from)
       IN  conv' = [pc |-> "converted", mode |-> "specific", from |-> from,
                    key |-> key, hour |-> hour, utc |-> utcTime,
                    outKey |-> r.date, outHour |-> r.hour]
    /\ UNCHANGED <<participants, userTimezone, today, storage, mounted, nextId, form, persistence>>

\* The converted slot converted back: from the observer zone to the zone the
\* slot came from, by the same function in the same browser.
ConvertBack ==
    /\ conv.pc = "converted"
    /\ IF conv.mode = "weekly"
       THEN LET r == convertTimeSlot(userTimezone, conv.from, conv.outKey, conv.outHour)
                utcTime == zonedTimeToUtc(
                               WeeklyTargetDate(ToJsDayIndex(getDayIndex(conv.outKey)),
                                                conv.outHour), userTimezone)
            IN  conv' = [pc |-> "back", mode |-> conv.mode, from |-> conv.from,
                         key |-> conv.key, hour |-> conv.hour, utc |-> conv.utc,
                         outKey |-> conv.outKey, outHour |-> conv.outHour,
                         backUtc |-> utcTime, backKey |-> r.day, backHour |-> r.hour]
       ELSE LET r == convertTimeSlotSpecific(userTimezone, conv.from,
                                             conv.outKey, conv.outHour)
                utcTime == zonedTimeToUtc(
                               DaysFromCivil(conv.outKey[1], conv.outKey[2],
                                             conv.outKey[3]) * 24 + conv.outHour,
                               userTimezone)
            IN  conv' = [pc |-> "back", mode |-> conv.mode, from |-> conv.from,
                         key |-> conv.key, hour |-> conv.hour, utc |-> conv.utc,
                         outKey |-> conv.outKey, outHour |-> conv.outHour,
                         backUtc |-> utcTime, backKey |-> r.date, backHour |-> r.hour]
    /\ UNCHANGED <<participants, userTimezone, today, storage, mounted, nextId, form, persistence>>

NextConv ==
    \/ \E from \in ValidZones, d \in 1..7, hour \in hours :
          ConvertWeekly(from, DAYS_OF_WEEK[d], hour)
    \/ \E from \in ValidZones, key \in ConvDateKeys, hour \in hours :
          ConvertSpecific(from, key, hour)
    \/ ConvertBack

SpecConv == InitConv /\ [][NextConv]_vars

\* Zone z keeps one offset from instant lo to instant hi.
NoTransition(z, lo, hi) == \A t \in lo..hi : ZoneOffset(z, t) = ZoneOffset(z, lo)

\* Neither zone of the round trip changes its offset between the instants
\* the two conversions pivot on.
NoTransitionBetween ==
    LET lo == IF conv.utc < conv.backUtc THEN conv.utc ELSE conv.backUtc
        hi == IF conv.utc < conv.backUtc THEN conv.backUtc ELSE conv.utc
    IN  NoTransition(conv.from, lo, hi) /\ NoTransition(userTimezone, lo, hi)

\* The wall-clock time the source slot names: the key's date, or the next
\* occurrence of the key's weekday from today, at the slot's hour.
SourceWallClock ==
    IF conv.mode = "weekly"
    THEN (today + DaysToAdd(ToJsDayIndex(getDayIndex(conv.key)))) * 24 + conv.hour
    ELSE DaysFromCivil(conv.key[1], conv.key[2], conv.key[3]) * 24 + conv.hour

\* The source slot is a wall-clock time its zone shows, and shows once
\* (it is neither skipped nor repeated by a transition of that zone).
SourceShownOnce ==
    Cardinality({t \in (SourceWallClock - 14)..(SourceWallClock + 12) :
                    WallClock(conv.from, t) = SourceWallClock}) = 1

\* C4: a slot converted from zone A to zone B and back from B to A is the
\* slot again, key and hour, when no transition of either zone lies between
\* the instants the two conversions pivot on; weekly and specific-date mode.
C4_RoundTrip ==
    (conv.pc = "back" /\ SourceShownOnce /\ NoTransitionBetween)
        => (conv.backKey = conv.key /\ conv.backHour = conv.hour)

\* The number of days from the source key to the converted key: the
\* difference of the day numbers, or of the weekday indices taken in -3..3.
DayShift ==
    IF conv.mode = "specific"
    THEN DaysFromCivil(conv.outKey[1], conv.outKey[2], conv.outKey[3])
             - DaysFromCivil(conv.key[1], conv.key[2], conv.key[3])
    ELSE ((getDayIndex(conv.outKey) - getDayIndex(conv.key) + 10) % 7) - 3

\* The original statement of C5: the converted key is at most one day from
\* the source key, for every pair of zones.
C5_AtMostOneDay ==
    conv.pc = "converted" => DayShift \in {0 - 1, 0, 1}

\* By how many hours the offsets of the two zones differ at the pivot.
OffsetDistance ==
    LET d == ZoneOffset(userTimezone, conv.utc) - ZoneOffset(conv.from, conv.utc)
    IN  IF d < 0 THEN 0 - d ELSE d

\* C5: the converted key is at most one day from the source key whenever the
\* offsets of the two zones differ by at most 24 hours at the pivot, and at
\* most two days from it for every pair of zones.
C5_DayShiftBounded ==
    conv.pc = "converted" =>
        /\ DayShift \in {0 - 2, 0 - 1, 0, 1, 2}
        /\ OffsetDistance <= 24 => DayShift \in {0 - 1, 0, 1}

\* C5 happens: a conversion between zones more than 24 hours apart that moves
\* the key by two days.
C5_Witness ==
    /\ conv.pc = "converted"
    /\ OffsetDistance > 24
    /\ DayShift = 2

---------------------------------------------------------------------------
(* The participant list beyond the length of the palette.                  *)

\* Bound of the list model: one more than the palette has colors.
MaxListLen == 13

\* The availability every participant of the list model submits.
ListAvailability == <<[key |-> "Monday", hours |-> <<9>>]>>

\* The page is opened on empty storage; participants are added through the
\* form and removed, one more id being issued than the list can hold.
NextList ==
    \/ Mount("UTC")
    \/ /\ Len(participants) < MaxListLen
       /\ nextId <= MaxListLen + 1
       /\ handleAddParticipant("Asia/Tokyo", "weekly", ListAvailability)
    \/ \E id \in 1..(MaxListLen + 1) : handleRemoveParticipant(id)
    \/ handleClearAll

SpecList == Init /\ [][NextList]_vars

\* C10: the color of the participant at position i (counted from 0) of the
\* list is PARTICIPANT_COLORS[i mod 12]; it is a function of the list and the
\* id alone, whatever cell it is asked for.
C10_ColorByPosition ==
    \A i \in 1..Len(participants) :
        getParticipantColor(participants, participants[i].id)
            = PARTICIPANT_COLORS[((i - 1) % 12) + 1]

\* C10 happens: a thirteenth participant, after a removal has made ids and
\* positions differ, wears the color of the first.
C10_Witness ==
    /\ Len(participants) = 13
    /\ participants[13].id # 13
    /\ getParticipantColor(participants, participants[13].id) = PARTICIPANT_COLORS[1]

---------------------------------------------------------------------------
(* The grid of AvailabilityMap, rendered and rendered again.               *)

\* Bounds of the grid model: the length of the list and the days that pass.
MaxGridLen == 2
MaxTicks == 6

\* Monday 2024-03-04, six days before America/New_York changes to daylight
\* time: the next Monday is March 4 on the first day and March 11 after it.
GridStart == DaysFromCivil(2024, 3, 4)

GridObservers == {"Asia/Tokyo", "Europe/London"}

\* What the form submitted for the people of the grid model.  The two weekly
\* ones meet in one hour of the observers' Tuesday; the two with dates meet
\* on July 5, and the second names its dates out of order.
GridWeekly ==
    {[timezone |-> "America/New_York", availabilityType |-> "weekly",
      availability |-> <<[key |-> "Monday", hours |-> <<22>>]>>],
     [timezone |-> "Europe/London", availabilityType |-> "weekly",
      availability |-> <<[key |-> "Tuesday", hours |-> <<2, 3>>]>>]}
GridSpecific ==
    {[timezone |-> "America/Los_Angeles", availabilityType |-> "specific",
      availability |-> <<[key |-> <<2024, 7, 4>>, hours |-> <<23>>]>>],
     [timezone |-> "Asia/Tokyo", availabilityType |-> "specific",
      availability |-> <<[key |-> <<2024, 7, 6>>, hours |-> <<9>>],
                         [key |-> <<2024, 7, 5>>, hours |-> <<15>>]>>]}

\* The lists of up to MaxGridLen participants of one type, ids in order of
\* submission.
GridLists ==
    LET listsOf(pool) == UNION {[1..k -> pool] : k \in 0..MaxGridLen}
        withIds(l) == [i \in 1..Len(l) |->
                         [id |-> i, timezone |-> l[i].timezone,
                          availabilityType |-> l[i].availabilityType,
                          availability |-> l[i].availability]]
    IN  {withIds(l) : l \in listsOf(GridWeekly) \cup listsOf(GridSpecific)}

InitGrid ==
    /\ participants \in GridLists
    /\ userTimezone \in GridObservers
    /\ today = GridStart
    /\ storage = participants
    /\ mounted = TRUE
    /\ nextId = Len(participants) + 1
    /\ conv = NoConv
    /\ form = Rerendered(ClosedForm, <<>>, participants)
    /\ persistence = SavedItem

\* One render of AvailabilityMap: the date axis and what renderTimeSlot
\* gives for every cell of the grid.
Rendering ==
    LET slots == AllSlots(participants)
    IN  [dates |-> specificDates(participants, slots),
         cells |-> [c \in GridCells(participants, slots) |->
                      renderTimeSlot(participants, slots, c.day, c.hour, c.date)]]

\* Midnight passes: new Date() is a day later.
Tick ==
    /\ today < GridStart + MaxTicks
    /\ today' = today + 1
    /\ UNCHANGED <<participants, userTimezone, storage, mounted, nextId, conv, form, persistence>>

\* The component renders.
Render ==
    /\ conv' = [pc |-> "rendered", now |-> today, first |-> Rendering]
    /\ UNCHANGED <<participants, userTimezone, today, storage, mounted, nextId, form, persistence>>

\* The component renders again, list and observer zone being what they were.
RenderAgain ==
    /\ conv.pc = "rendered"
    /\ conv' = [pc |-> "rerendered", now |-> conv.now, first |-> conv.first,
                again |-> today, second |-> Rendering]
    /\ UNCHANGED <<participants, userTimezone, today, storage, mounted, nextId, form, persistence>>

NextGrid ==
    \/ Tick
    \/ Render
    \/ RenderAgain

SpecGrid == InitGrid /\ [][NextGrid]_vars

MemberCells(grid, i) ==
    {c \in DOMAIN grid.cells :
        \E k \in 1..Len(grid.cells[c].members) : grid.cells[c].members[k] = i}

\* The participant of scenario B: America/Los_Angeles, 2024-07-04, hour 23.
IsScenarioB(p) ==
    /\ p.timezone = "America/Los_Angeles"
    /\ p.availabilityType = "specific"
    /\ p.availability = <<[key |-> <<2024, 7, 4>>, hours |-> <<23>>]>>

\* C12: seen from Europe/London, hour 23 of 2024-07-04 in America/Los_Angeles
\* converts to hour 7 of 2024-07-05; the participant is a member of the cell
\* (2024-07-05, 7) and of no other, and the date axis has 2024-07-05 and has
\* not 2024-07-04.
C12_ScenarioB ==
    (conv.pc = "rendered" /\ userTimezone = "Europe/London") =>
        \A i \in 1..Len(participants) :
            IsScenarioB(participants[i]) =>
                /\ convertTimeSlotSpecific("America/Los_Angeles", userTimezone,
                                           <<2024, 7, 4>>, 23)
                     = [date |-> <<2024, 7, 5>>, hour |-> 7, dayName |-> "Friday"]
                /\ MemberCells(conv.first, i)
                     = {[day |-> "Friday", hour |-> 7, date |-> <<2024, 7, 5>>]}
                /\ \E k \in 1..Len(conv.first.dates) : conv.first.dates[k] = <<2024, 7, 5>>
                /\ \A k \in 1..Len(conv.first.dates) : conv.first.dates[k] # <<2024, 7, 4>>

\* C12 happens: the grid of a list that starts with the participant of
\* scenario B was rendered for Europe/London.
C12_Witness ==
    /\ conv.pc = "rendered"
    /\ userTimezone = "Europe/London"
    /\ Len(participants) > 0
    /\ IsScenarioB(participants[1])
    /\ MemberCells(conv.first, 1) # {}

\* The participant of scenario A: America/New_York, Monday, hour 22.
IsScenarioA(p) ==
    /\ p.timezone = "America/New_York"
    /\ p.availabilityType = "weekly"
    /\ p.availability = <<[key |-> "Monday", hours |-> <<22>>]>>

\* The offset of America/New_York at hour 22 of the Monday the weekly
\* conversion takes for its date.
ScenarioAOffset ==
    ZoneOffset("America/New_York",
               zonedTimeToUtc(WeeklyTargetDate(1, 22), "America/New_York"))

\* C13: seen from Asia/Tokyo, on whichever day the conversion is made, Monday
\* hour 22 of America/New_York is Tuesday, at hour (22 + 9 - offset of New
\* York) mod 24: 11 under UTC-4 and 12 under UTC-5.  convertTimeSlot and the
\* conversion inside getAvailabilityData agree on it, and the participant is
\* a member of that cell of the grid and of no other.
C13_ScenarioA ==
    userTimezone = "Asia/Tokyo" =>
        LET c == convertTimeSlot("America/New_York", userTimezone, "Monday", 22)
            w == weeklyInline("America/New_York", "Monday", 22)
        IN  /\ ScenarioAOffset \in {0 - 4, 0 - 5}
            /\ c.day = "Tuesday"
            /\ c.hour = (22 + 9 - ScenarioAOffset) % 24
            /\ c.hour = IF ScenarioAOffset = 0 - 4 THEN 11 ELSE 12
            /\ w.placed /\ w.day = c.day /\ w.hour = c.hour
            /\ (conv.pc = "rendered" /\ conv.now = today) =>
                  \A i \in 1..Len(participants) :
                      IsScenarioA(participants[i]) =>
                          MemberCells(conv.first, i)
                            = {[day |-> "Tuesday", hour |-> c.hour, date |-> NoDate]}

\* C13 happens: the grid of the participant of scenario A was rendered for
\* Asia/Tokyo on a Thursday, the Monday taken being under UTC-4.
C13_Witness ==
    /\ userTimezone = "Asia/Tokyo"
    /\ conv.pc = "rendered"
    /\ conv.now = today
    /\ JsDayOfWeek(today) = 4
    /\ ScenarioAOffset = 0 - 4
    /\ Len(participants) > 0
    /\ IsScenarioA(participants[1])
    /\ MemberCells(conv.first, 1) = {[day |-> "Tuesday", hour |-> 11, date |-> NoDate]}

\* C14: with no participant the component renders the placeholder: no cell
\* is drawn and the date axis is empty; asked for any hour of any day, the
\* aggregation of the empty list gives no member and count 0, and the cell is
\* not flagged as covered by all.
C14_ScenarioC ==
    (conv.pc = "rendered" /\ conv.now = today /\ Len(participants) = 0) =>
        /\ conv.first.dates = <<>>
        /\ \A c \in DOMAIN conv.first.cells : ~conv.first.cells[c].isAll
        /\ AllSlots(participants) = <<>>
        /\ \A d \in 1..7, h \in hours :
              renderTimeSlot(participants, AllSlots(participants),
                             DAYS_OF_WEEK[d], h, NoDate)
                = [members |-> <<>>, count |-> 0, text |-> "", isAll |-> FALSE]

\* C14 happens: the empty list was rendered.
C14_Witness ==
    /\ conv.pc = "rendered"
    /\ conv.now = today
    /\ participants = <<>>
    /\ DOMAIN conv.first.cells = {}
    /\ conv.first.dates = <<>>

\* The dates the entries of the list convert to, each entry converted on its
\* own.
ConvertedDates ==
    UNION {LET p   == participants[i]
               raw == RawEntries(p.availability)
           IN  {convertTimeSlotSpecific(p.timezone, userTimezone,
                                        raw[e].key, raw[e].hour).date :
                   e \in 1..Len(raw)} :
           i \in 1..Len(participants)}

\* C15: for a list of participants with dates, the date axis of the grid
\* holds the dates the entries convert to and no other date, and each date
\* of the axis is earlier in the calendar than the one after it (so that no
\* date is on the axis twice).
C15_DateAxis ==
    (conv.pc = "rendered" /\ availabilityType(participants) = "specific") =>
        /\ {conv.first.dates[k] : k \in 1..Len(conv.first.dates)} = ConvertedDates
        /\ \A k \in 1..(Len(conv.first.dates) - 1) :
              DaysFromCivil(conv.first.dates[k][1], conv.first.dates[k][2],
                            conv.first.dates[k][3])
                < DaysFromCivil(conv.first.dates[k + 1][1], conv.first.dates[k + 1][2],
                                conv.first.dates[k + 1][3])

\* C15 happens: two participants whose entries, named out of order, convert
\* to two dates, one of them shared, gave an axis of two dates.
C15_Witness ==
    /\ conv.pc = "rendered"
    /\ Len(participants) = 2
    /\ participants[1].timezone = "Asia/Tokyo"
    /\ IsScenarioB(participants[2])
    /\ conv.first.dates = <<<<2024, 7, 5>>, <<2024, 7, 6>>>>

\* C17: in every cell of the grid the members stand in the order of the
\* participant list: a participant earlier in the list is never after a
\* later one.
C17_MembershipOrder ==
    conv.pc = "rendered" =>
        \A c \in DOMAIN conv.first.cells :
            LET members == conv.first.cells[c].members
            IN  \A k \in 1..Len(members), l \in 1..Len(members) :
                    k < l => members[k] <= members[l]

\* C17 happens: a cell holds the first and the second participant of the
\* list, who are in different zones and named different days.
C17_Witness ==
    /\ conv.pc = "rendered"
    /\ Len(participants) = 2
    /\ participants[1].timezone # participants[2].timezone
    /\ \E c \in DOMAIN conv.first.cells : conv.first.cells[c].members = <<1, 2>>

---------------------------------------------------------------------------
(* isDaylightSavingTime, asked for an instant and a zone.                  *)

\* The instants asked about: noon UTC of the 15th of every month of 2024 and
\* the evening of its last day.
DstInstants ==
    {DaysFromCivil(2024, m, 15) * 24 + 12 : m \in 1..12}
        \cup {DaysFromCivil(2024, 12, 31) * 24 + 20}

\* convertTimestampToTimezone calls isDaylightSavingTime(date, targetTimezone).
CheckDst(date, timezone) ==
    /\ conv' = [pc |-> "dst", date |-> date, zone |-> timezone,
                isDST |-> isDaylightSavingTime(date, timezone)]
    /\ UNCHANGED <<participants, userTimezone, today, storage, mounted, nextId, form, persistence>>

NextDst ==
    \E date \in DstInstants, timezone \in ValidZones \cup {UnknownZone} :
        CheckDst(date, timezone)

SpecDst == InitConv /\ [][NextDst]_vars

\* The first instant of January 1, in zone z, of the year z shows at t.
JanuaryFirst(z, t) ==
    zonedTimeToUtc(DaysFromCivil(CivilFromDays(DayOf(WallClock(z, t)))[1], 1, 1) * 24, z)

\* C16: isDaylightSavingTime is true exactly when the UTC offset of the zone
\* at the instant differs from its UTC offset on January 1 of the same year.
C16_DstIffOffsetDiffers ==
    (conv.pc = "dst" /\ isValidTimezone(conv.zone)) =>
        (conv.isDST <=> ZoneOffset(conv.zone, conv.date)
                          # ZoneOffset(conv.zone, JanuaryFirst(conv.zone, conv.date)))

---------------------------------------------------------------------------
(* ParticipantForm and the list it submits to.                             *)

\* Bounds of the form model: the length of the list and the ids issued.
MaxFormLen == 3
MaxFormIds == 4

\* The Add Participant buttons: setIsFormOpen(true).
OpenForm ==
    /\ mounted
    /\ ~form.isOpen
    /\ form' = [form EXCEPT !.isOpen = TRUE]
    /\ UNCHANGED <<participants, userTimezone, today, storage, mounted, nextId, conv, persistence>>

\* onClose (the close button, Cancel, the Escape key): setIsFormOpen(false).
onClose ==
    /\ form.isOpen
    /\ form' = [form EXCEPT !.isOpen = FALSE]
    /\ UNCHANGED <<participants, userTimezone, today, storage, mounted, nextId, conv, persistence>>

\* handleAvailabilityTypeChange, from a type radio; the radios are disabled
\* unless the list is empty.
handleAvailabilityTypeChange(newType) ==
    /\ form.isOpen
    /\ isFirstParticipant(participants)
    /\ form' = [form EXCEPT !.availabilityType = newType,
                            !.availability = <<>>, !.selectedDates = <<>>]
    /\ UNCHANGED <<participants, userTimezone, today, storage, mounted, nextId, conv, persistence>>

\* handleSubmit: the form's availability and type go out with the
\* submission, the availability is emptied, the type is set back to 'weekly'
\* if this was the first participant, the form closes, and the list is
\* rendered anew.
handleSubmit(tz) ==
    /\ form.isOpen
    /\ onSubmit([isOpen |-> FALSE,
                 availabilityType |-> IF isFirstParticipant(participants) THEN "weekly"
                                      ELSE form.availabilityType,
                 availability |-> <<>>, selectedDates |-> <<>>],
                tz, form.availabilityType, form.availability)

NextForm ==
    \/ \E zone \in ObserverZones : Mount(zone)
    \/ OpenForm
    \/ onClose
    \/ \E newType \in {"weekly", "specific"} : handleAvailabilityTypeChange(newType)
    \/ /\ Len(participants) < MaxFormLen
       /\ nextId <= MaxFormIds
       /\ \E tz \in FormZones : handleSubmit(tz)
    \/ \E id \in 1..MaxFormIds : handleRemoveParticipant(id)
    \/ handleClearAll

SpecForm == Init /\ [][NextForm]_vars

\* C18: starting from an empty list, whatever is done with the form and the
\* list, all participants of the list have the availabilityType of the
\* first, and while the list is not empty that type is the one the form is
\* set to, so the one the next submission carries.
C18_SharedType ==
    /\ \A i \in 1..Len(participants) :
          participants[i].availabilityType = participants[1].availabilityType
    /\ ~isFirstParticipant(participants) =>
          form.availabilityType = participants[1].availabilityType

\* C18 happens: after the first participants were removed, the form was set
\* to dates, and two participants with dates were submitted.
C18_Witness ==
    /\ Len(participants) = 2
    /\ participants[1].id > 1
    /\ participants[1].availabilityType = "specific"
    /\ participants[2].availabilityType = "specific"
    /\ ~form.isOpen

---------------------------------------------------------------------------
(* utils/storage.ts when localStorage fails.                               *)

\* Bound of the storage model: the length of the stored and of the shown list.
MaxStoreLen == 2

\* Before the page is opened, something else writes the item: text that is
\* no JSON.
CorruptItem ==
    /\ ~mounted
    /\ persistence.item # "corrupt"
    /\ storage' = <<>>
    /\ persistence' = [persistence EXCEPT !.item = "corrupt"]
    /\ UNCHANGED <<participants, userTimezone, today, mounted, nextId, conv, form>>

\* The browser's storage starts or stops throwing on reads, on writes.
StorageAccess(readFails, writeFails) ==
    /\ <<readFails, writeFails>> # <<persistence.readFails, persistence.writeFails>>
    /\ persistence' = [persistence EXCEPT !.readFails = readFails,
                                          !.writeFails = writeFails]
    /\ UNCHANGED <<participants, userTimezone, today, storage, mounted, nextId, conv, form>>

NextStore ==
    \/ /\ Len(storage) < MaxStoreLen
       /\ nextId <= MaxStoreLen
       /\ StoredParticipant("Asia/Tokyo", "weekly", ListAvailability)
    \/ CorruptItem
    \/ \E readFails \in BOOLEAN, writeFails \in BOOLEAN : StorageAccess(readFails, writeFails)
    \/ \E zone \in ObserverZones : Mount(zone)
    \/ /\ Len(participants) < MaxStoreLen
       /\ nextId <= MaxStoreLen + 1
       /\ handleAddParticipant("Asia/Tokyo", "weekly", ListAvailability)
    \/ \E id \in 1..(MaxStoreLen + 1) : handleRemoveParticipant(id)
    \/ handleClearAll

SpecStore == Init /\ [][NextStore]_vars

\* C19: no exception leaves loadParticipants, saveParticipants or
\* clearParticipants.  The list shown after the page is opened is empty when
\* the read throws, when the item is no JSON and when there is no item.
\* While writes throw, a change of the list leaves the stored item as it was
\* and the list shown is the changed one.
C19_FailuresDoNotPropagate ==
    [][/\ ~persistence'.escaped
       /\ (~mounted /\ mounted'
              /\ (persistence.readFails \/ persistence.item \in {"corrupt", "none"}))
            => participants' = <<>>
       /\ (mounted /\ persistence.writeFails /\ participants' # participants)
            => /\ storage' = storage
               /\ persistence'.item = persistence.item
               /\ nextId' # nextId => Len(participants') = Len(participants) + 1]_vars

\* C19 happens: the page was opened on an item that is no JSON, in a browser
\* whose storage cannot be written, and a participant was added: the list
\* holds the participant and the item is as it was.
C19_Witness ==
    /\ mounted
    /\ persistence.writeFails
    /\ persistence.item = "corrupt"
    /\ Len(participants) = 1
    /\ ~persistence.escaped

---------------------------------------------------------------------------
(* The two weekday numberings.                                             *)

\* C21: the mapping from the Monday-first index to the getDay() index and the
\* mapping back undo each other on 0..6, and a weekly slot converted between
\* two zones that have the same offset at the instant converted keeps its
\* weekday name, by convertTimeSlot and by the conversion inside
\* getAvailabilityData, for each of the seven names.
C21_WeekdayIndexConsistent ==
    /\ \A m \in 0..6 : ToJsDayIndex(m) \in 0..6 /\ ToMondayIndex(ToJsDayIndex(m)) = m
    /\ \A s \in 0..6 : ToMondayIndex(s) \in 0..6 /\ ToJsDayIndex(ToMondayIndex(s)) = s
    /\ (/\ conv.pc = "converted"
        /\ conv.mode = "weekly"
        /\ ZoneOffset(conv.from, conv.utc) = ZoneOffset(userTimezone, conv.utc))
         => /\ conv.outKey = conv.key
            /\ weeklyInline(conv.from, conv.key, conv.hour).day = conv.key

\* C21 happens: a Sunday slot (index 6, getDay() 0) was converted between two
\* different zones of equal offset and is a Sunday slot.
C21_Witness ==
    /\ conv.pc = "converted"
    /\ conv.mode = "weekly"
    /\ conv.from # userTimezone
    /\ ZoneOffset(conv.from, conv.utc) = ZoneOffset(userTimezone, conv.utc)
    /\ conv.key = "Sunday"
    /\ conv.outKey = "Sunday"

---------------------------------------------------------------------------
(* ParticipantForm: the availability being edited.                         *)

\* availability[key] (undefined for a key the object has not).
HasKey(av, key) == \E k \in 1..Len(av) : av[k].key = key

\* availability[key] || []
HoursOf(av, key) ==
    IF HasKey(av, key)
    THEN av[CHOOSE k \in 1..Len(av) : av[k].key = key].hours
    ELSE <<>>

\* { ...av, [key]: hs }: the property keeps its place, a new one comes last.
SetKey(av, key, hs) ==
    IF HasKey(av, key)
    THEN [k \in 1..Len(av) |-> IF av[k].key = key THEN [key |-> key, hours |-> hs]
                                                  ELSE av[k]]
    ELSE Append(av, [key |-> key, hours |-> hs])

\* delete av[key]
DeleteKey(av, key) == SelectSeq(av, LAMBDA e : e.key # key)

\* Array.prototype.includes
includes(hs, hour) == \E k \in 1..Len(hs) : hs[k] = hour

\* Array.prototype.sort((a, b) => a - b)
RECURSIVE SortHours(_)
SortHours(hs) ==
    IF hs = <<>> THEN <<>>
    ELSE LET least == CHOOSE k \in 1..Len(hs) :
                          /\ \A j \in 1..Len(hs) : hs[k] <= hs[j]
                          /\ \A j \in 1..(k - 1) : hs[j] # hs[k]
         IN  <<hs[least]>> \o SortHours(SubSeq(hs, 1, least - 1)
                                          \o SubSeq(hs, least + 1, Len(hs)))

\* The hour list a toggle leaves under the key when it adds the hour without
\* looking whether the list has it.
ToggledHoursAlwaysAdd(hs, hour) == SortHours(Append(hs, hour))

\* The hour list toggleTimeSlot leaves under the key.
ToggledHours(hs, hour) ==
    IF includes(hs, hour)
    THEN SelectSeq(hs, LAMBDA h : h # hour)
    ELSE SortHours(Append(hs, hour))

\* Array.from({ length: 24 }, (_, i) => i)
AllHours == [i \in 1..24 |-> i - 1]

workingHours == <<9, 10, 11, 12, 13, 14, 15, 16, 17>>

\* targets.forEach(key => { if (key !== source) av[key] = [...sourceHours] })
RECURSIVE CopyHours(_, _, _, _)
CopyHours(av, targets, source, sourceHours) ==
    IF targets = <<>> THEN av
    ELSE CopyHours(IF Head(targets) # source
                   THEN SetKey(av, Head(targets), sourceHours) ELSE av,
                   Tail(targets), source, sourceHours)

\* The form with its availability replaced.
setAvailability(av) ==
    /\ form' = [form EXCEPT !.availability = av]
    /\ UNCHANGED <<participants, userTimezone, today, storage, mounted, nextId, conv, persistence>>

\* The keys the form shows hour buttons for: the seven days, or the dates
\* selected in the calendar.
IsShownKey(key) ==
    IF form.availabilityType = "weekly"
    THEN \E d \in 1..7 : DAYS_OF_WEEK[d] = key
    ELSE includes(form.selectedDates, key)

toggleTimeSlot(day, hour) ==
    /\ form.isOpen /\ IsShownKey(day)
    /\ setAvailability(SetKey(form.availability, day,
                              ToggledHours(HoursOf(form.availability, day), hour)))

selectAllHours(day) ==
    /\ form.isOpen /\ IsShownKey(day)
    /\ setAvailability(SetKey(form.availability, day, AllHours))

clearAllHours(day) ==
    /\ form.isOpen /\ IsShownKey(day)
    /\ HasKey(form.availability, day)
    /\ setAvailability(DeleteKey(form.availability, day))

\* toggleDay on an expanded day that has no hour: its key is deleted.
toggleDay(day) ==
    /\ form.isOpen /\ form.availabilityType = "weekly"
    /\ HasKey(form.availability, day)
    /\ HoursOf(form.availability, day) = <<>>
    /\ setAvailability(DeleteKey(form.availability, day))

copyHoursToAllDays(sourceDay) ==
    /\ form.isOpen /\ form.availabilityType = "weekly"
    /\ HoursOf(form.availability, sourceDay) # <<>>
    /\ setAvailability(CopyHours(form.availability, DAYS_OF_WEEK, sourceDay,
                                 HoursOf(form.availability, sourceDay)))

copyHoursToSelectedDays(sourceDay, targetDays) ==
    /\ form.isOpen /\ form.availabilityType = "weekly"
    /\ HoursOf(form.availability, sourceDay) # <<>>
    /\ setAvailability(CopyHours(form.availability, targetDays, sourceDay,
                                 HoursOf(form.availability, sourceDay)))

copyHoursToAllSelectedDates(sourceDateKey) ==
    /\ form.isOpen /\ form.availabilityType = "specific"
    /\ includes(form.selectedDates, sourceDateKey)
    /\ HoursOf(form.availability, sourceDateKey) # <<>>
    /\ setAvailability(CopyHours(form.availability, form.selectedDates, sourceDateKey,
                                 HoursOf(form.availability, sourceDateKey)))

setCommonWorkingHours ==
    /\ form.isOpen /\ form.availabilityType = "weekly"
    /\ setAvailability(CopyHours(form.availability, SubSeq(DAYS_OF_WEEK, 1, 5),
                                 "", workingHours))

\* clearAllDays and clearAllSelectedDates: setAvailability({}).
clearAllDays ==
    /\ form.isOpen
    /\ form.availability # <<>>
    /\ setAvailability(<<>>)

\* Date.prototype.toISOString().split('T')[0]: the date UTC has at the
\* instant.
formatDateKey(date) == CivilFromDays(DayOf(date))

\* generateCalendarDates: 35 Dates from the Monday of the current week on,
\* each with the local time of day of now (setDate keeps the time).
generateCalendarDates(now) ==
    LET local          == WallClock(browserZone, now)
        daysToSubtract == ToMondayIndex(JsDayOfWeek(DayOf(local)))
    IN  [n \in 1..35 |->
            JsLocalToUtc(browserZone,
                         (DayOf(local) - daysToSubtract + n - 1) * 24 + HourOf(local))]

\* isDateInPast: the Date is before today's local midnight.
isDateInPast(date, now) ==
    date < JsLocalToUtc(browserZone, DayOf(WallClock(browserZone, now)) * 24)

\* The form after toggleCalendarDate for a key: the key leaves selectedDates
\* and the availability, or enters selectedDates.
ToggledDate(f, dateKey) ==
    IF includes(f.selectedDates, dateKey)
    THEN [f EXCEPT !.selectedDates = SelectSeq(@, LAMBDA k : k # dateKey),
                   !.availability = DeleteKey(@, dateKey)]
    ELSE [f EXCEPT !.selectedDates = Append(@, dateKey)]

\* toggleCalendarDate, from the calendar cell of a Date that is not past.
toggleCalendarDate(date) ==
    /\ form.isOpen /\ form.availabilityType = "specific"
    /\ form' = ToggledDate(form, formatDateKey(date))
    /\ UNCHANGED <<participants, userTimezone, today, storage, mounted, nextId, conv, persistence>>

\* The days, hours, times of day and calendar cells (counted from today's)
\* the buttons of the availability model are pressed for.
AvailDays == {"Monday", "Saturday"}
AvailHours == {9, 23}
AvailTimesOfDay == {0, 23}
AvailCells == {0}

\* The date keys the calendar can give at those times.
AvailDateKeys ==
    {CivilFromDays(d) : d \in {t + k : t \in ReferenceDays, k \in 0..1}}

\* The keys of the form's type.
AvailKeys == IF form.availabilityType = "weekly" THEN AvailDays ELSE AvailDateKeys

\* Bound of the availability model: the participants submitted.
MaxAvailLen == 1

InitAvail ==
    /\ participants = <<>>
    /\ userTimezone = "America/New_York"
    /\ today \in ReferenceDays
    /\ storage = <<>>
    /\ mounted = TRUE
    /\ nextId = 1
    /\ conv = NoConv
    /\ form = [ClosedForm EXCEPT !.isOpen = TRUE]
    /\ persistence = SavedItem

NextAvail ==
    \/ \E day \in AvailKeys, hour \in AvailHours : toggleTimeSlot(day, hour)
    \/ \E day \in AvailKeys : selectAllHours(day)
    \/ \E day \in AvailKeys : clearAllHours(day)
    \/ \E day \in AvailDays : form.availabilityType = "weekly" /\ toggleDay(day)
    \/ \E sourceDay \in AvailDays :
          form.availabilityType = "weekly" /\ copyHoursToAllDays(sourceDay)
    \/ \E sourceDay \in AvailDays :
          /\ form.availabilityType = "weekly"
          /\ copyHoursToSelectedDays(sourceDay, <<"Monday", "Saturday">>)
    \/ \E sourceDateKey \in AvailDateKeys :
          form.availabilityType = "specific" /\ copyHoursToAllSelectedDates(sourceDateKey)
    \/ setCommonWorkingHours
    \/ clearAllDays
    \/ \E timeOfDay \in AvailTimesOfDay, cell \in AvailCells :
          LET now   == JsLocalToUtc(browserZone, today * 24 + timeOfDay)
              dates == generateCalendarDates(now)
              n     == ToMondayIndex(JsDayOfWeek(today)) + 1 + cell
          IN  ~isDateInPast(dates[n], now) /\ toggleCalendarDate(dates[n])
    \/ \E newType \in {"weekly", "specific"} : handleAvailabilityTypeChange(newType)
    \/ /\ Len(participants) < MaxAvailLen
       /\ \E tz \in FormZones : handleSubmit(tz)

SpecAvail == InitAvail /\ [][NextAvail]_vars

\* An availability whose hour lists hold integers of 0..23 only, none twice.
DistinctHoursInRange(av) ==
    \A k \in 1..Len(av) :
        /\ \A h \in 1..Len(av[k].hours) : av[k].hours[h] \in 0..23
        /\ \A h \in 1..Len(av[k].hours), j \in 1..Len(av[k].hours) :
              h # j => av[k].hours[h] # av[k].hours[j]
        /\ \A j \in 1..Len(av) : j # k => av[j].key # av[k].key

\* C22: whatever buttons of the form were pressed, every hour list of the
\* availability being edited holds only integers of 0..23 and no hour twice,
\* under keys that are all different, and so does the availability of every
\* participant submitted.
C22_HoursDistinctInRange ==
    /\ DistinctHoursInRange(form.availability)
    /\ \A i \in 1..Len(participants) : DistinctHoursInRange(participants[i].availability)

\* C22 happens: working hours were set, hour 9 of Monday was switched off and
\* hour 23 on, Monday was copied to Saturday, and the participant submitted.
C22_Witness ==
    /\ Len(participants) = 1
    /\ HoursOf(participants[1].availability, "Monday")
         = <<10, 11, 12, 13, 14, 15, 16, 17, 23>>
    /\ HoursOf(participants[1].availability, "Saturday")
         = <<10, 11, 12, 13, 14, 15, 16, 17, 23>>
    /\ HoursOf(participants[1].availability, "Tuesday") = workingHours

---------------------------------------------------------------------------
(* The occurrence of a weekday that the weekly conversion uses.            *)

\* C23: on every reference day and for every valid weekday name, the date
\* the weekly conversion uses is the earliest one on or after today with that
\* weekday: 0..6 days after today, 0 exactly when today is that weekday, no
\* earlier day from today on has the weekday, and the Date built for any hour
\* of 0..23 lies on that date and has the weekday asked for.
C23_NextOccurrence ==
    \A targetDayIndex \in 0..6 :
        LET jsDayIndex == ToJsDayIndex(targetDayIndex)
            daysToAdd  == DaysToAdd(jsDayIndex)
        IN  /\ daysToAdd \in 0..6
            /\ (daysToAdd = 0) <=> (JsDayOfWeek(today) = jsDayIndex)
            /\ JsDayOfWeek(today + daysToAdd) = jsDayIndex
            /\ \A k \in 0..(daysToAdd - 1) : JsDayOfWeek(today + k) # jsDayIndex
            /\ \A hour \in 0..23 :
                  LET targetDate == WeeklyTargetDate(jsDayIndex, hour)
                  IN  /\ DayOf(targetDate) = today + daysToAdd
                      /\ HourOf(targetDate) = hour
                      /\ getDayName(ToMondayIndex(JsDayOfWeek(DayOf(targetDate))))
                           = DAYS_OF_WEEK[targetDayIndex + 1]

\* C23 happens: a grid with somebody's Monday was rendered on a Monday, the
\* Monday used being that day, and again on the Tuesday, the Monday used
\* being six days away.
C23_Witness ==
    /\ conv.pc = "rerendered"
    /\ conv.now = GridStart
    /\ conv.again = GridStart + 1
    /\ today = conv.again
    /\ \E i \in 1..Len(participants) :
          /\ participants[i].availabilityType = "weekly"
          /\ HasKey(participants[i].availability, "Monday")
    /\ DaysToAdd(ToJsDayIndex(getDayIndex("Monday"))) = 6

---------------------------------------------------------------------------
(* What the handlers of App leave alone in the list.                       *)

\* The ids of a list.
IdsOf(ps) == {ps[i].id : i \in 1..Len(ps)}

\* C24: once the page is open, a step that makes the list longer appends one
\* participant with a new id at the end and leaves the others as they were,
\* in place; a step that makes it shorter takes out all participants of one
\* id, or all participants, and leaves the others as they were, in order; no
\* other step changes the list, so no participant already in it is edited.
C24_ListFrame ==
    [][mounted =>
          \/ participants' = participants
          \/ /\ Len(participants') = Len(participants) + 1
             /\ SubSeq(participants', 1, Len(participants)) = participants
             /\ participants'[Len(participants')].id \notin IdsOf(participants)
          \/ \E id \in IdsOf(participants) :
                participants' = SelectSeq(participants, LAMBDA p : p.id # id)
          \/ participants' = <<>>]_vars

\* C24 happens: of three participants submitted the second was removed and a
\* fourth was submitted; the list holds the first, the third and the fourth,
\* in that order.
C24_Witness ==
    /\ Len(participants) = 3
    /\ participants[1].id = 1
    /\ participants[2].id = 3
    /\ participants[3].id = 4
    /\ storage = participants

---------------------------------------------------------------------------
(* The two weekly aggregations.                                            *)

\* C25: for a list of weekly participants, the aggregation with the
\* conversion inlined and the aggregation that calls convertTimeSlot give the
\* same membership list for every cell (day, hour) of the weekly grid,
\* entries whose conversion fails or whose weekday name is unknown included.
C25_InlineEqualsConvert ==
    (mounted /\ \A i \in 1..Len(participants) :
                    participants[i].availabilityType = "weekly")
    => LET slots == AllSlots(participants)
           converted == AllConverted(participants)
       IN  \A c \in WeeklyCells :
              getAvailabilityData(slots, c.day, c.hour, NoDate)
                  = getAvailabilityDataConvert(converted, c.day, c.hour)

---------------------------------------------------------------------------
(* App's mount: the load effect, the save effect and the render after.     *)

\* Bound of the startup model: the length of the stored list.
MaxStartupLen == 2

\* The lists another session may have left in storage, ids in order.
StartupLists ==
    LET pool == {[timezone |-> tz, availabilityType |-> "weekly",
                  availability |-> ListAvailability] : tz \in {"Asia/Tokyo", "UTC"}}
        withIds(l) == [i \in 1..Len(l) |->
                         [id |-> i, timezone |-> l[i].timezone,
                          availabilityType |-> l[i].availabilityType,
                          availability |-> l[i].availability]]
    IN  {withIds(l) : l \in UNION {[1..k -> pool] : k \in 0..MaxStartupLen}}

\* App has rendered for the first time, with useState([]) and useState('UTC'):
\* its two effects are pending, in the order of their declaration, and the
\* save effect holds the participants of that render.  strict tells whether
\* React runs the effects of a mount twice (a root inside StrictMode in a
\* development build) or once; stored is the list found in storage.
InitStartup ==
    /\ storage \in StartupLists
    /\ participants = <<>>
    /\ userTimezone = "UTC"
    /\ today \in ReferenceDays
    /\ mounted = FALSE
    /\ nextId = Len(storage) + 1
    /\ form = ClosedForm
    /\ persistence = IF storage = <<>> THEN NoItem ELSE SavedItem
    /\ \E strict \in BOOLEAN, zone \in ObserverZones :
          conv = [pc |-> "mount", strict |-> strict, zone |-> zone, stored |-> storage,
                  effects |-> <<"load", "save">>, rendered |-> <<>>,
                  updates |-> <<>>, passes |-> 0]

\* The effect with no dependencies: setUserTimezone(getUserTimezone()) and
\* setParticipants(loadParticipants()); the updates wait for the next render.
LoadEffect ==
    /\ conv.effects # <<>>
    /\ Head(conv.effects) = "load"
    /\ conv' = [conv EXCEPT !.effects = Tail(@),
                            !.updates = Append(@, loadParticipants.value)]
    /\ mounted' = TRUE
    /\ persistence' = [persistence EXCEPT !.escaped = @ \/ loadParticipants.threw]
    /\ UNCHANGED <<participants, userTimezone, today, storage, nextId, form>>

\* The effect on [participants]: saveParticipants of the list of the render
\* the effect belongs to.
RunSaveEffect ==
    /\ conv.effects # <<>>
    /\ Head(conv.effects) = "save"
    /\ SaveEffect(conv.rendered, FALSE)
    /\ conv' = [conv EXCEPT !.effects = Tail(@),
                            !.passes = IF conv.pc = "mount" THEN @ + 1 ELSE @]
    /\ UNCHANGED <<participants, userTimezone, today, mounted, nextId, form>>

\* StrictMode: the effects of the mount are run a second time, those of the
\* same render, before any update is rendered.
StrictRemount ==
    /\ conv.pc = "mount"
    /\ conv.strict
    /\ conv.effects = <<>>
    /\ conv.passes = 1
    /\ conv' = [conv EXCEPT !.effects = <<"load", "save">>]
    /\ UNCHANGED <<participants, userTimezone, today, storage, mounted, nextId, form, persistence>>

\* The render that takes the updates in: the state is that of the last
\* setParticipants, a new array, so the save effect is pending again.
Rerender ==
    /\ conv.effects = <<>>
    /\ conv.updates # <<>>
    /\ ~(conv.pc = "mount" /\ conv.strict /\ conv.passes = 1)
    /\ participants' = conv.updates[Len(conv.updates)]
    /\ userTimezone' = conv.zone
    /\ form' = Rerendered(form, participants, participants')
    /\ conv' = [conv EXCEPT !.pc = "update", !.effects = <<"save">>,
                            !.rendered = participants', !.updates = <<>>]
    /\ UNCHANGED <<today, storage, mounted, nextId, persistence>>

NextStartup ==
    \/ LoadEffect
    \/ RunSaveEffect
    \/ StrictRemount
    \/ Rerender

SpecStartup == InitStartup /\ [][NextStartup]_vars

\* React runs every effect and every render it has scheduled.
SpecStartupLive == SpecStartup /\ WF_vars(NextStartup)

\* C26: when the page is opened on a stored list that is not empty, whether
\* the mount effects run once or twice, from some point on the list shown and
\* the list in storage are the stored list, and are so for good.
C26_StartupKeepsStored ==
    (conv.stored # <<>>) =>
        <>[](/\ participants = conv.stored
             /\ persistence.item = "list"
             /\ storage = conv.stored)

---------------------------------------------------------------------------
(* What loadParticipants would return after a change of the list.          *)

\* One of the three handlers of App acts, with the render and the save
\* effect that follow.
ListOperation ==
    \/ handleAddParticipant("Asia/Tokyo", "weekly", ListAvailability)
    \/ \E id \in 1..(MaxStoreLen + 1) : handleRemoveParticipant(id)
    \/ handleClearAll

\* C27: after an add, a removal or a clear-all in a browser whose storage
\* can be written and read, and the save effect that follows, a call of
\* loadParticipants returns the list in memory; after clear-all that is the
\* empty list.
C27_LoadReturnsList ==
    [][(ListOperation /\ ~persistence.writeFails /\ ~persistence.readFails)
          => /\ loadParticipants' = [threw |-> FALSE, value |-> participants']
             /\ (participants' = <<>>) => loadParticipants'.value = <<>>]_vars

\* C27 happens: after two additions and the removal of the first, storage
\* being writable, the item holds the one participant left, which is what
\* loadParticipants returns.
C27_Witness ==
    /\ mounted
    /\ ~persistence.writeFails
    /\ ~persistence.readFails
    /\ Len(participants) = 1
    /\ participants[1].id = 2
    /\ persistence.item = "list"
    /\ loadParticipants.value = participants

---------------------------------------------------------------------------
(* Full coverage and membership.                                           *)

\* C28: in a cell that is flagged as full coverage, every participant of the
\* list is a member: no participant is absent from it.
C28_FullCoverageHoldsEveryone ==
    LET slots == AllSlots(participants)
    IN  \A c \in GridCells(participants, slots) :
            LET r == renderTimeSlot(participants, slots, c.day, c.hour, c.date)
            IN  r.isAll => \A i \in 1..Len(participants) : Occurrences(r.members, i) >= 1

---------------------------------------------------------------------------
(* Weekly conversion between zones that keep their offset.                 *)

\* The zones that keep one UTC offset over the period considered: from the
\* day before the first reference day of the grid model to the day after the
\* latest occurrence a conversion of its last reference day can use.
ConstantOffsetZones ==
    {z \in ValidZones :
        NoTransition(z, (GridStart - 1) * 24, (GridStart + MaxTicks + 8) * 24)}

\* The slot (day index d, hour) of zone from as zone to shows it, both zones
\* keeping the offset they have on the first reference day: the hours are
\* shifted by the difference of the offsets, around the week.
ShiftedSlot(from, to, d, hour) ==
    LET at == GridStart * 24
        shifted == d * 24 + hour - ZoneOffset(from, at) + ZoneOffset(to, at)
    IN  [day |-> DAYS_OF_WEEK[((shifted \div 24) % 7) + 1], hour |-> shifted % 24]

\* C29: between two zones that keep their offset over the period, a weekly
\* conversion gives, on every reference day, the weekday name and hour that
\* the two offsets alone determine, by convertTimeSlot and by the conversion
\* inside getAvailabilityData, so the same on every day; and a grid of
\* weekly participants of such zones rendered on two days for an observer in
\* such a zone is the same grid.  (A conversion reads nothing of a render,
\* so the conversions are looked at where nothing was rendered yet.)
C29_WeeklyIndependentOfNow ==
    /\ (conv.pc = "idle" /\ userTimezone \in ConstantOffsetZones) =>
           \A from \in ConstantOffsetZones, d \in 0..6, hour \in 0..23 :
               LET expected == ShiftedSlot(from, userTimezone, d, hour)
                   inline == weeklyInline(from, DAYS_OF_WEEK[d + 1], hour)
               IN  /\ convertTimeSlot(from, userTimezone, DAYS_OF_WEEK[d + 1], hour)
                        = expected
                   /\ inline.placed
                   /\ inline.day = expected.day
                   /\ inline.hour = expected.hour
    /\ (/\ conv.pc = "rerendered"
        /\ userTimezone \in ConstantOffsetZones
        /\ \A i \in 1..Len(participants) :
              /\ participants[i].availabilityType = "weekly"
              /\ participants[i].timezone \in ConstantOffsetZones)
         => conv.second = conv.first

\* C29 happens: the grid of two participants in Europe/London was rendered
\* for Asia/Tokyo on the Monday and again on the Sunday, with the same cells
\* holding both.
C29_Witness ==
    /\ conv.pc = "rerendered"
    /\ conv.now = GridStart
    /\ conv.again = GridStart + MaxTicks
    /\ userTimezone = "Asia/Tokyo"
    /\ Len(participants) = 2
    /\ \A i \in 1..2 : participants[i].timezone = "Europe/London"
    /\ \E c \in DOMAIN conv.second.cells : conv.second.cells[c].count = 2
    /\ conv.second = conv.first

---------------------------------------------------------------------------
(* The calendar of the specific-date form: the cell, its key, its row.     *)

\* Bound of the calendar model: the dates selected at one time.
MaxCalendarDates == 2

\* The browsers of the calendar model, the local hours at which a cell is
\* clicked and the cells clicked (1 is the Monday of the current week, 35 the
\* last cell; the reference day has cell 5).
CalendarZones == {"UTC", "Asia/Tokyo", "America/New_York", "Etc/GMT+12", "Pacific/Auckland"}
CalendarTimesOfDay == {0, 8, 12, 20, 23}
CalendarCells == {1, 5, 6, 7, 35}

\* The local calendar date of a Date: getFullYear(), getMonth() + 1, getDate().
LocalDate(date) == CivilFromDays(DayOf(WallClock(browserZone, date)))

\* The Date of a row of the hour list: new Date(`${dateKey}T00:00:00`), local
\* midnight of the key's date.
RowDate(dateKey) ==
    JsLocalToUtc(browserZone, DaysFromCivil(dateKey[1], dateKey[2], dateKey[3]) * 24)

InitCalendar ==
    /\ participants = <<>>
    /\ userTimezone \in CalendarZones
    /\ today \in ReferenceDays
    /\ storage = <<>>
    /\ mounted = TRUE
    /\ nextId = 1
    /\ conv = NoConv
    /\ form = [ClosedForm EXCEPT !.isOpen = TRUE, !.availabilityType = "specific"]
    /\ persistence = SavedItem

\* A click on cell n of the calendar rendered at local hour timeOfDay of
\* today: toggleCalendarDate of the cell's Date unless the cell is disabled.
\* The click is recorded with the date the cell shows (date.getDate()), the
\* key, and the date the row of the key shows (formatDateDisplay).
ClickCell(timeOfDay, n) ==
    LET now == JsLocalToUtc(browserZone, today * 24 + timeOfDay)
        date == generateCalendarDates(now)[n]
        dateKey == formatDateKey(date)
    IN  /\ ~isDateInPast(date, now)
        /\ form.isOpen /\ form.availabilityType = "specific"
        /\ form' = ToggledDate(form, dateKey)
        /\ conv' = [pc |-> "clicked", timeOfDay |-> timeOfDay, n |-> n,
                    cell |-> LocalDate(date), key |-> dateKey,
                    selected |-> includes(form'.selectedDates, dateKey),
                    row |-> LocalDate(RowDate(dateKey))]
        /\ UNCHANGED <<participants, userTimezone, today, storage, mounted, nextId, persistence>>

NextCalendar ==
    \E timeOfDay \in CalendarTimesOfDay, n \in CalendarCells :
        /\ Len(form.selectedDates) < MaxCalendarDates
        /\ ClickCell(timeOfDay, n)

SpecCalendar == InitCalendar /\ [][NextCalendar]_vars

\* C30: the key stored for a clicked cell is the local calendar date the
\* cell shows, and the row of the hour list for that key shows that date,
\* at every local hour and in every browser zone.
C30_KeyIsDateOfCell ==
    conv.pc = "clicked" =>
        /\ conv.key = conv.cell
        /\ conv.selected => conv.row = conv.cell

=============================================================================
